---- MODULE Spec2Model ----
(***************************************************************************)
(* Model of the dual-camera IBR (image background removal) pipeline:       *)
(*   - DualCameraIBRProcessor   (src/src/lerobot/vision/ibr_processor.py)  *)
(*   - YOLO26Service, get_yolo26_service                                   *)
(*                              (src/src/lerobot/vision/yolo26_service.py) *)
(*   - IBRPreprocessor          (src/src/lerobot/vision/ibr_preprocessor.py)*)
(*                                                                         *)
(* A frame is a row of NPix RGB pixels with a tag telling whether OpenCV's *)
(* CLAHE has been run on it; a mask is a row of NPix values in {0, 255}.   *)
(* Brightness, contrast and gamma are exact rationals <<num, den>> and the *)
(* float pipeline is computed in exact rational arithmetic.                *)
(***************************************************************************)
EXTENDS Integers, Sequences, FiniteSets, TLC

VARIABLES
    \* ---- DualCameraIBRProcessor (one instance, called from one thread)
    config,               \* self._config: the VisionConfig of the session
    cv2_available,        \* whether "import cv2" succeeds in this installation
    frame_count,          \* self._frame_count
    last_mask,            \* self._last_mask (None or a mask)
    fallback_warn_count,  \* self._fallback_warn_count
    last_mask_role,       \* history: role of the frame the cached mask was computed from
    failure,              \* history: whether the latest gated call raised, and the cache at that time
    ibr_calls,            \* history: calls so far for a role with IBR enabled
    warnings,             \* history: warnings written to the log
    last,                 \* history: the call just made and what it returned
    \* ---- YOLO26Service.segment called from several threads
    model,                \* self._model ("None" or "YOLO")
    infer_lock,           \* self._infer_lock: 0 when free, else the holder
    path_exists,          \* Path(segmentation_model_path).exists()
    ultralytics_available,\* whether "from ultralytics import YOLO" succeeds
    spc,                  \* position of each thread inside segment
    seg_calls,            \* calls of segment each thread has started
    loads,                \* history: completed _load_model calls
    predicts,             \* history: predict calls started
    \* ---- get_yolo26_service / DualCameraIBRProcessor.__init__
    instance,             \* module global _instance (0: None, else a service id)
    glock,                \* module global _lock: 0 when free, else the holder
    services,             \* heap of YOLO26Service objects made by get_yolo26_service
    gpc,                  \* position of each thread inside __init__ / get_yolo26_service
    garg,                 \* the arguments of each thread's constructor call
    processors,           \* per thread: the _service of the processor it built (0: none yet,
                          \*   n > 0: services[n], n < 0: the service its caller passed in)
    \* ---- background removal as a pure function
    rb,                   \* the call of remove_background / _apply_mask and its result
    \* ---- the end of YOLO26Service.segment as a function of frame size and model output
    sg,                   \* the call and the mask it returned
    \* ---- teleop_loop and _ibr_worker in async mode
    queue,                \* ibr_async_state["queue"]: queue.Queue(maxsize=1)
    shared,               \* ibr_async_state["shared"]: the published observation
    shared_lock,          \* ibr_async_state["lock"]: "free", "loop" or "worker"
    lpc,                  \* position of the control loop
    wpc,                  \* position of the worker
    tick,                 \* observations read from the robot so far
    wobs,                 \* the worker's local obs and processed
    used,                 \* obs_processed of the loop's latest tick
    hist,                 \* history: what the queue accepted and dropped, what was published
    \* ---- teleoperate: set-up and the synchronous loop
    sess,
    \* ---- load_vision_config as a function of the path and the file behind it
    lv,
    \* ---- get_camera_role and _apply_dual_camera_processor
    disp,
    \* ---- the failure counter of DualCameraIBRProcessor over many gated calls
    fw,
    \* ---- process_with_mask with the mask arrays as objects
    al,
    \* ---- BrightnessReducePreprocessor
    bp,
    \* ---- YOLOIBRObservationProcessorStep
    ys,
    \* ---- teleoperate: whether ibr_async_state was made (the worker runs)
    ibr_async

procVars == <<config, cv2_available, frame_count, last_mask, fallback_warn_count,
              last_mask_role, failure, ibr_calls, warnings, last>>
svcVars  == <<model, infer_lock, path_exists, ultralytics_available, spc, seg_calls,
              loads, predicts>>
singVars == <<instance, glock, services, gpc, garg, processors>>
maskVars == <<rb>>
asyncVars == <<queue, shared, shared_lock, lpc, wpc, tick, wobs, used, hist>>
ext2Vars == <<fw, al, bp, ys, ibr_async>>
extVars == <<sg, asyncVars, sess, lv, disp, ext2Vars>>
vars == <<procVars, svcVars, singVars, maskVars, extVars>>

-----------------------------------------------------------------------------
(* Bounds *)

NPix == 2          \* pixels of a frame
MaxSkip == 2       \* largest segmentation_frame_skip drawn
MaxCalls == 4      \* calls for IBR-enabled roles in one behaviour
NThreads == 2      \* threads calling into the service
MaxSegCalls == 2   \* calls of segment by one thread

(* Program constants *)

FALLBACK_WARN_EVERY_N_FRAMES == 30

None == <<>>
GRIPPER == "gripper"
TOP == "top"
CameraRole == {GRIPPER, TOP}

BACKGROUND_COLOR == <<0, 0, 0>>

-----------------------------------------------------------------------------
(* Data *)

Pixels == {<<0, 0, 0>>, <<100, 100, 100>>, <<200, 120, 40>>}
BackgroundColors == {<<0, 0, 0>>, <<255, 255, 255>>}
Frames == {[px |-> p, eq |-> FALSE] : p \in [1..NPix -> Pixels]}
Masks == [1..NPix -> {0, 255}]

\* The frames the cameras deliver to the processor, and the masks its service returns:
\* the first k pixels of one colour (foreground), the others of the other (background).
CameraFrames == {[px |-> [i \in 1..NPix |-> IF i <= k THEN <<200, 120, 40>> ELSE <<100, 100, 100>>],
                  eq |-> FALSE] : k \in {0, 1}}
ServiceMasks == {[i \in 1..NPix |-> IF i <= k THEN 255 ELSE 0] : k \in {0, 1, NPix}}

\* What a call of self._service.segment(image) does: raise, or return a mask of the frame's size.
SegOutcomes == {[raises |-> TRUE, mask |-> None]}
               \cup {[raises |-> FALSE, mask |-> m] : m \in ServiceMasks}

One == <<1, 1>>
Half == <<1, 2>>
IsNeutral(q) == q[1] = q[2]

\* The brightness settings of one role: (brightness, contrast, gamma, stabilize).
Views == { [brightness |-> One,  contrast |-> One,  gamma |-> 1, stabilize |-> FALSE],
           [brightness |-> Half, contrast |-> Half, gamma |-> 2, stabilize |-> FALSE],
           [brightness |-> One,  contrast |-> One,  gamma |-> 1, stabilize |-> TRUE] }

VisionConfig(gi, ti, skip, gv, tv) ==
    [gripper_use_ibr |-> gi, top_use_ibr |-> ti, segmentation_frame_skip |-> skip,
     gripper_brightness |-> gv.brightness, gripper_contrast |-> gv.contrast,
     gripper_gamma |-> gv.gamma, gripper_brightness_stabilize |-> gv.stabilize,
     top_brightness |-> tv.brightness, top_contrast |-> tv.contrast,
     top_gamma |-> tv.gamma, top_brightness_stabilize |-> tv.stabilize]

Configs == {VisionConfig(gi, ti, skip, gv, tv) :
                gi \in BOOLEAN, ti \in BOOLEAN, skip \in 0..MaxSkip, gv \in Views, tv \in Views}

-----------------------------------------------------------------------------
(* DualCameraIBRProcessor *)

Max(a, b) == IF a >= b THEN a ELSE b

\* Mutant: the gate tests the counter after the increment.
ShouldRunSegmentation_OffByOne(cfg, fc) ==
    LET skip == Max(1, cfg.segmentation_frame_skip)
        fc1 == fc + 1
    IN [frame_count |-> fc1, run |-> (fc1 % skip = 0)]

\* _should_run_segmentation: the incremented counter and the gate's answer.
ShouldRunSegmentation(cfg, fc) ==
    LET skip == Max(1, cfg.segmentation_frame_skip)
        fc1 == fc + 1
    IN [frame_count |-> fc1, run |-> ((fc1 - 1) % skip = 0)]

\* out[mask == 0] = bg on the array px.
MaskedAssign(px, mask, bg) == [i \in DOMAIN px |-> IF mask[i] = 0 THEN bg ELSE px[i]]

\* _apply_mask: out is a copy of image, written in place; the result holds the
\* returned array and the caller's image array after the call.
ApplyMask(image, mask) ==
    LET heap0 == [image |-> image.px, out |-> image.px]
        heap1 == [heap0 EXCEPT !.out = MaskedAssign(heap0.out, mask, BACKGROUND_COLOR)]
    IN [out |-> [image EXCEPT !.px = heap1.out], image |-> [image EXCEPT !.px = heap1.image]]

\* One channel value through gamma, contrast and brightness, as an exact
\* fraction, then np.clip(out, 0, 255).astype(np.uint8).
ChannelBCG(v, brightness, contrast, gamma) ==
    LET g  == IF gamma = 1 THEN <<v, 1>> ELSE <<v * v, 255>>
        c  == IF IsNeutral(contrast) THEN g
              ELSE <<(g[1] - 128 * g[2]) * contrast[1] + 128 * g[2] * contrast[2],
                     g[2] * contrast[2]>>
        b  == IF IsNeutral(brightness) THEN c
              ELSE <<c[1] * brightness[1], c[2] * brightness[2]>>
    IN IF b[1] <= 0 THEN 0
       ELSE IF b[1] >= 255 * b[2] THEN 255
       ELSE b[1] \div b[2]

\* _apply_brightness_contrast_gamma
ApplyBrightnessContrastGamma(image, brightness, contrast, gamma) ==
    IF IsNeutral(brightness) /\ IsNeutral(contrast) /\ gamma = 1 THEN image
    ELSE [image EXCEPT !.px = [i \in DOMAIN image.px |->
              [ch \in 1..3 |-> ChannelBCG(image.px[i][ch], brightness, contrast, gamma)]]]

\* cv2's CLAHE on the luminance channel: an external transformation, recorded on the frame.
Clahe(image) == [image EXCEPT !.eq = TRUE]

\* _stabilize_brightness
StabilizeBrightness(cfg, cv2, image, camera_role) ==
    IF ~cv2 THEN image
    ELSE LET brightness == IF camera_role = TOP THEN cfg.top_brightness ELSE cfg.gripper_brightness
             contrast   == IF camera_role = TOP THEN cfg.top_contrast ELSE cfg.gripper_contrast
             gamma      == IF camera_role = TOP THEN cfg.top_gamma ELSE cfg.gripper_gamma
             enabled    == IF camera_role = TOP THEN cfg.top_brightness_stabilize
                           ELSE cfg.gripper_brightness_stabilize
             out == ApplyBrightnessContrastGamma(image, brightness, contrast, gamma)
         IN IF ~enabled THEN out ELSE Clahe(out)

\* use_ibr of process and process_with_mask
UseIbr(cfg, camera_role) ==
    \/ camera_role = GRIPPER /\ cfg.gripper_use_ibr
    \/ camera_role = TOP /\ cfg.top_use_ibr

\* The processor's mutable fields as one record.
ProcState == [frame_count |-> frame_count, last_mask |-> last_mask,
              fallback_warn_count |-> fallback_warn_count]

\* Mutant: a failure drops the cached mask.
SegmentationFailed_DropsCache(st, image) ==
    LET n == st.fallback_warn_count + 1
    IN [ret |-> image, st |-> [st EXCEPT !.fallback_warn_count = n, !.last_mask = None],
        called |-> TRUE, failed |-> TRUE, cached |-> FALSE, applied |-> None,
        warned |-> (n % FALLBACK_WARN_EVERY_N_FRAMES = 1)]

\* Mutant: a failed call takes back its step of the frame counter.
SegmentationFailed_UncountsFrame(st, image) ==
    LET n == st.fallback_warn_count + 1
    IN [ret |-> image,
        st |-> [st EXCEPT !.fallback_warn_count = n, !.frame_count = @ - 1],
        called |-> TRUE, failed |-> TRUE, cached |-> FALSE, applied |-> None,
        warned |-> (n % FALLBACK_WARN_EVERY_N_FRAMES = 1)]

\* The except branch of process: count the failure, warn on counts 1, 31, ..., return raw.
SegmentationFailed(st, image) ==
    LET n == st.fallback_warn_count + 1
    IN [ret |-> image, st |-> [st EXCEPT !.fallback_warn_count = n],
        called |-> TRUE, failed |-> TRUE, cached |-> FALSE, applied |-> None,
        warned |-> (n % FALLBACK_WARN_EVERY_N_FRAMES = 1)]

\* The end of process: composite mask onto the frame, then normalize brightness.
Composite(cfg, cv2, st, image, camera_role, mask, called) ==
    [ret |-> StabilizeBrightness(cfg, cv2, ApplyMask(image, mask).out, camera_role),
     st |-> st, called |-> called, failed |-> FALSE, cached |-> called, applied |-> mask,
     warned |-> FALSE]

\* Mutant: a skipped call never composites.
ReuseLastMask_Raw(cfg, cv2, st, image, camera_role) ==
    [ret |-> image, st |-> st, called |-> FALSE, failed |-> FALSE, cached |-> FALSE,
     applied |-> None, warned |-> FALSE]

\* process on a skipped call: reuse self._last_mask, or return the frame raw when there is none.
ReuseLastMask(cfg, cv2, st, image, camera_role) ==
    IF st.last_mask = None
    THEN [ret |-> image, st |-> st, called |-> FALSE, failed |-> FALSE, cached |-> FALSE,
          applied |-> None, warned |-> FALSE]
    ELSE Composite(cfg, cv2, st, image, camera_role, st.last_mask, FALSE)

\* Mutant: the frame counter advances on a call for a role without IBR too.
Passthrough_Counts(cfg, cv2, st, image, camera_role) ==
    [ret |-> StabilizeBrightness(cfg, cv2, image, camera_role),
     st |-> [st EXCEPT !.frame_count = @ + 1],
     called |-> FALSE, failed |-> FALSE, cached |-> FALSE, applied |-> None,
     warned |-> FALSE]

\* The "if not use_ibr" branch of process: brightness normalization of the raw frame.
Passthrough(cfg, cv2, st, image, camera_role) ==
    [ret |-> StabilizeBrightness(cfg, cv2, image, camera_role), st |-> st,
     called |-> FALSE, failed |-> FALSE, cached |-> FALSE, applied |-> None,
     warned |-> FALSE]

\* process(image, camera_role); seg is what self._service.segment(image) does if it is called.
ProcessOp(cfg, cv2, st, image, camera_role, seg) ==
    IF ~UseIbr(cfg, camera_role)
    THEN Passthrough(cfg, cv2, st, image, camera_role)
    ELSE LET gate == ShouldRunSegmentation(cfg, st.frame_count)
             st1 == [st EXCEPT !.frame_count = gate.frame_count]
         IN IF gate.run
            THEN IF seg.raises
                 THEN SegmentationFailed(st1, image)
                 ELSE Composite(cfg, cv2, [st1 EXCEPT !.last_mask = seg.mask], image,
                                camera_role, seg.mask, TRUE)
            ELSE ReuseLastMask(cfg, cv2, st1, image, camera_role)

\* process_with_mask(image, camera_role): the image, the mask (or None) and the new fields.
ProcessWithMaskOp(cfg, cv2, st, image, camera_role, seg) ==
    LET use_ibr == \/ camera_role = GRIPPER /\ cfg.gripper_use_ibr
                   \/ camera_role = TOP /\ cfg.top_use_ibr
    IN IF ~use_ibr
       THEN [ret |-> StabilizeBrightness(cfg, cv2, image, camera_role), ret_mask |-> None,
             st |-> st, called |-> FALSE, failed |-> FALSE, cached |-> FALSE,
             applied |-> None, warned |-> FALSE]
       ELSE LET gate == ShouldRunSegmentation(cfg, st.frame_count)
                fc == gate.frame_count
            IN IF gate.run /\ seg.raises
               THEN LET n == st.fallback_warn_count + 1
                    IN [ret |-> image, ret_mask |-> None,
                        st |-> [st EXCEPT !.frame_count = fc, !.fallback_warn_count = n],
                        called |-> TRUE, failed |-> TRUE, cached |-> FALSE, applied |-> None,
                        warned |-> (n % FALLBACK_WARN_EVERY_N_FRAMES = 1)]
               ELSE LET mask == IF gate.run THEN seg.mask ELSE st.last_mask
                        st2 == [st EXCEPT !.frame_count = fc,
                                          !.last_mask = IF gate.run THEN seg.mask ELSE @]
                    IN IF mask = None
                       THEN [ret |-> image, ret_mask |-> None, st |-> st2,
                             called |-> gate.run, failed |-> FALSE, cached |-> gate.run,
                             applied |-> None, warned |-> FALSE]
                       ELSE [ret |-> StabilizeBrightness(cfg, cv2, ApplyMask(image, mask).out,
                                                         camera_role),
                             ret_mask |-> mask, st |-> st2,
                             called |-> gate.run, failed |-> FALSE, cached |-> gate.run,
                             applied |-> mask, warned |-> FALSE]

\* No call made yet.
NoCall == [op |-> "none", role |-> GRIPPER, image |-> None, ret |-> None, ret_mask |-> None,
           called |-> FALSE, failed |-> FALSE, applied |-> None, applied_role |-> None,
           warned |-> FALSE, before |-> None]

NoFailure == [raised |-> FALSE, cache |-> None]

\* The state after a call whose result is r.
Called(op, image, camera_role, r, ret_mask) ==
    /\ frame_count' = r.st.frame_count
    /\ last_mask' = r.st.last_mask
    /\ fallback_warn_count' = r.st.fallback_warn_count
    /\ last_mask_role' = IF r.cached THEN camera_role ELSE last_mask_role
    /\ failure' = IF r.failed THEN [raised |-> TRUE, cache |-> last_mask]
                  ELSE IF r.called THEN NoFailure ELSE failure
    /\ ibr_calls' = IF UseIbr(config, camera_role) THEN ibr_calls + 1 ELSE ibr_calls
    /\ warnings' = IF r.warned THEN warnings + 1 ELSE warnings
    /\ last' = [op |-> op, role |-> camera_role, image |-> image, ret |-> r.ret,
                ret_mask |-> ret_mask, called |-> r.called, failed |-> r.failed,
                applied |-> r.applied,
                applied_role |-> IF r.applied = None THEN None
                                 ELSE IF r.cached THEN camera_role ELSE last_mask_role,
                warned |-> r.warned, before |-> ProcState]
    /\ UNCHANGED <<config, cv2_available>>

\* A call of process by the control loop (or the worker).
Process(image, camera_role, seg) ==
    /\ UseIbr(config, camera_role) => ibr_calls < MaxCalls
    /\ Called("process", image, camera_role,
              ProcessOp(config, cv2_available, ProcState, image, camera_role, seg), None)
    /\ UNCHANGED <<svcVars, singVars, maskVars, extVars>>

\* A call of process_with_mask.
ProcessWithMask(image, camera_role, seg) ==
    /\ UseIbr(config, camera_role) => ibr_calls < MaxCalls
    /\ LET r == ProcessWithMaskOp(config, cv2_available, ProcState, image, camera_role, seg)
       IN Called("process_with_mask", image, camera_role, r, r.ret_mask)
    /\ UNCHANGED <<svcVars, singVars, maskVars, extVars>>

-----------------------------------------------------------------------------
(* Initial values of the parts a specification does not exercise *)

ProcIdle ==
    /\ config = VisionConfig(TRUE, FALSE, 2, CHOOSE v \in Views : IsNeutral(v.brightness) /\ ~v.stabilize,
                             CHOOSE v \in Views : IsNeutral(v.brightness) /\ ~v.stabilize)
    /\ cv2_available = TRUE
    /\ frame_count = 0
    /\ last_mask = None
    /\ fallback_warn_count = 0
    /\ last_mask_role = None
    /\ failure = NoFailure
    /\ ibr_calls = 0
    /\ warnings = 0
    /\ last = NoCall

SvcIdle ==
    /\ model = "None"
    /\ infer_lock = 0
    /\ path_exists = TRUE
    /\ ultralytics_available = TRUE
    /\ spc = <<>>
    /\ seg_calls = <<>>
    /\ loads = 0
    /\ predicts = 0

SingIdle ==
    /\ instance = 0
    /\ glock = 0
    /\ services = <<>>
    /\ gpc = <<>>
    /\ garg = <<>>
    /\ processors = <<>>

MaskIdle == rb = [fn |-> "none"]

SegIdle == sg = [fn |-> "none"]

AsyncIdle ==
    /\ queue = <<>>
    /\ shared = <<>>
    /\ shared_lock = "free"
    /\ lpc = "off"
    /\ wpc = "off"
    /\ tick = 0
    /\ wobs = <<>>
    /\ used = <<>>
    /\ hist = <<>>

SessIdle == sess = [phase |-> "off"]

CfgIdle == lv = [fn |-> "none"]

DispIdle == disp = [fn |-> "none"]

WarnIdle == fw = [fn |-> "none"]

AliasIdle == al = [fn |-> "none"]

BrightIdle == bp = [fn |-> "none"]

StepIdle == ys = [fn |-> "none"]

ModeIdle == ibr_async = TRUE

Ext2Idle == WarnIdle /\ AliasIdle /\ BrightIdle /\ StepIdle /\ ModeIdle

ExtIdle == SegIdle /\ AsyncIdle /\ SessIdle /\ CfgIdle /\ DispIdle /\ Ext2Idle

-----------------------------------------------------------------------------
(* The processor called once per frame *)

\* DualCameraIBRProcessor.__init__ with the session's VisionConfig.
Init ==
    /\ config \in Configs
    /\ cv2_available \in BOOLEAN
    /\ frame_count = 0
    /\ last_mask = None
    /\ fallback_warn_count = 0
    /\ last_mask_role = None
    /\ failure = NoFailure
    /\ ibr_calls = 0
    /\ warnings = 0
    /\ last = NoCall
    /\ SvcIdle /\ SingIdle /\ MaskIdle /\ ExtIdle

Next ==
    \E image \in CameraFrames, camera_role \in CameraRole, seg \in SegOutcomes :
        \/ Process(image, camera_role, seg)
        \/ ProcessWithMask(image, camera_role, seg)

Spec == Init /\ [][Next]_vars

-----------------------------------------------------------------------------
(* Background removal as a function of frame, mask and background colour *)

\* Mutant: the frame is not copied before it is written.
RemoveBackground_NoCopy(image, mask, background_color) ==
    LET px == MaskedAssign(image.px, mask, background_color)
    IN [out |-> [image EXCEPT !.px = px], image |-> [image EXCEPT !.px = px]]

\* IBRPreprocessor.remove_background: out is a copy of image, written in place; the
\* result holds the returned array and the caller's image array after the call.
RemoveBackground(image, mask, background_color) ==
    LET heap0 == [image |-> image.px, out |-> image.px]
        heap1 == [heap0 EXCEPT !.out = MaskedAssign(heap0.out, mask, background_color)]
    IN [out |-> [image EXCEPT !.px = heap1.out], image |-> [image EXCEPT !.px = heap1.image]]

\* A call of IBRPreprocessor(segmenter, background_color).remove_background(image, mask).
RemoveBackgroundCall(image, mask, background_color) ==
    /\ LET r == RemoveBackground(image, mask, background_color)
       IN rb' = [fn |-> "remove_background", image |-> image, mask |-> mask,
                 background_color |-> background_color, out |-> r.out, image_after |-> r.image]
    /\ UNCHANGED <<procVars, svcVars, singVars, extVars>>

\* A call of DualCameraIBRProcessor._apply_mask(image, mask).
ApplyMaskCall(image, mask) ==
    /\ LET r == ApplyMask(image, mask)
       IN rb' = [fn |-> "_apply_mask", image |-> image, mask |-> mask,
                 background_color |-> BACKGROUND_COLOR, out |-> r.out, image_after |-> r.image]
    /\ UNCHANGED <<procVars, svcVars, singVars, extVars>>

InitMask ==
    /\ rb = [fn |-> "none"]
    /\ ProcIdle /\ SvcIdle /\ SingIdle /\ ExtIdle

NextMask ==
    \E image \in Frames, mask \in Masks :
        \/ \E background_color \in BackgroundColors :
              RemoveBackgroundCall(image, mask, background_color)
        \/ ApplyMaskCall(image, mask)

SpecMask == InitMask /\ [][NextMask]_vars

-----------------------------------------------------------------------------
(* YOLO26Service.segment called from several threads *)

Threads == 1..NThreads

Returned == {"idle", "returned", "FileNotFoundError", "ImportError"}

\* A thread calls segment(image_np) and reaches "with self._infer_lock".
SegmentCall(t) ==
    /\ UNCHANGED <<procVars, singVars, maskVars, extVars>>
    /\ spc[t] \in Returned
    /\ seg_calls[t] < MaxSegCalls
    /\ spc' = [spc EXCEPT ![t] = "lock"]
    /\ seg_calls' = [seg_calls EXCEPT ![t] = @ + 1]
    /\ UNCHANGED <<model, infer_lock, path_exists, ultralytics_available, loads, predicts>>

\* Mutant: the with statement does not wait for the lock.
AcquireInferLock_NoWait(t) ==
    /\ UNCHANGED <<procVars, singVars, maskVars, extVars>>
    /\ spc[t] = "lock"
    /\ infer_lock' = t
    /\ spc' = [spc EXCEPT ![t] = "check"]
    /\ UNCHANGED <<model, path_exists, ultralytics_available, seg_calls, loads, predicts>>

\* with self._infer_lock: enter once the lock is free.
AcquireInferLock(t) ==
    /\ UNCHANGED <<procVars, singVars, maskVars, extVars>>
    /\ spc[t] = "lock"
    /\ infer_lock = 0
    /\ infer_lock' = t
    /\ spc' = [spc EXCEPT ![t] = "check"]
    /\ UNCHANGED <<model, path_exists, ultralytics_available, seg_calls, loads, predicts>>

\* if self._model is None
CheckModel(t) ==
    /\ UNCHANGED <<procVars, singVars, maskVars, extVars>>
    /\ spc[t] = "check"
    /\ spc' = [spc EXCEPT ![t] = IF model = "None" THEN "load" ELSE "unlock"]
    /\ UNCHANGED <<model, infer_lock, path_exists, ultralytics_available, seg_calls, loads,
                   predicts>>

\* Mutant: a failed load leaves a broken model behind, so later calls skip the load.
LoadModel_KeepsFailure(t) ==
    /\ UNCHANGED <<procVars, singVars, maskVars, extVars>>
    /\ spc[t] = "load"
    /\ IF ~path_exists \/ ~ultralytics_available
       THEN /\ spc' = [spc EXCEPT ![t] = IF ~path_exists THEN "FileNotFoundError" ELSE "ImportError"]
            /\ infer_lock' = 0
            /\ model' = "Broken"
            /\ UNCHANGED loads
       ELSE /\ model' = "YOLO"
            /\ loads' = loads + 1
            /\ spc' = [spc EXCEPT ![t] = "unlock"]
            /\ UNCHANGED infer_lock
    /\ UNCHANGED <<path_exists, ultralytics_available, seg_calls, predicts>>

\* self._model = self._load_model(); an exception leaves the with block, which
\* releases the lock, and segment raises it.
LoadModel(t) ==
    /\ UNCHANGED <<procVars, singVars, maskVars, extVars>>
    /\ spc[t] = "load"
    /\ IF ~path_exists
       THEN /\ spc' = [spc EXCEPT ![t] = "FileNotFoundError"]
            /\ infer_lock' = 0
            /\ UNCHANGED <<model, loads>>
       ELSE IF ~ultralytics_available
       THEN /\ spc' = [spc EXCEPT ![t] = "ImportError"]
            /\ infer_lock' = 0
            /\ UNCHANGED <<model, loads>>
       ELSE /\ model' = "YOLO"
            /\ loads' = loads + 1
            /\ spc' = [spc EXCEPT ![t] = "unlock"]
            /\ UNCHANGED infer_lock
    /\ UNCHANGED <<path_exists, ultralytics_available, seg_calls, predicts>>

\* The end of the with block: the lock is released before the frame is copied.
ReleaseInferLock(t) ==
    /\ UNCHANGED <<procVars, singVars, maskVars, extVars>>
    /\ spc[t] = "unlock"
    /\ infer_lock' = 0
    /\ spc' = [spc EXCEPT ![t] = "predict"]
    /\ UNCHANGED <<model, path_exists, ultralytics_available, seg_calls, loads, predicts>>

\* results = self._model.predict(...): the thread enters the model's predict.
PredictBegin(t) ==
    /\ UNCHANGED <<procVars, singVars, maskVars, extVars>>
    /\ spc[t] = "predict"
    /\ spc' = [spc EXCEPT ![t] = "in_predict"]
    /\ predicts' = predicts + 1
    /\ UNCHANGED <<model, infer_lock, path_exists, ultralytics_available, seg_calls, loads>>

\* predict returns; the masks are combined and segment returns the mask.
PredictEnd(t) ==
    /\ UNCHANGED <<procVars, singVars, maskVars, extVars>>
    /\ spc[t] = "in_predict"
    /\ spc' = [spc EXCEPT ![t] = "returned"]
    /\ UNCHANGED <<model, infer_lock, path_exists, ultralytics_available, seg_calls, loads,
                   predicts>>

\* The model file is put in place while the process runs.
CreateModelFile ==
    /\ UNCHANGED <<procVars, singVars, maskVars, extVars>>
    /\ ~path_exists
    /\ path_exists' = TRUE
    /\ UNCHANGED <<model, infer_lock, ultralytics_available, spc, seg_calls, loads, predicts>>

\* YOLO26Service.__init__
InitSvc ==
    /\ model = "None"
    /\ infer_lock = 0
    /\ path_exists \in BOOLEAN
    /\ ultralytics_available \in BOOLEAN
    /\ spc = [t \in Threads |-> "idle"]
    /\ seg_calls = [t \in Threads |-> 0]
    /\ loads = 0
    /\ predicts = 0
    /\ ProcIdle /\ SingIdle /\ MaskIdle /\ ExtIdle

NextSvc ==
    \/ \E t \in Threads :
          \/ SegmentCall(t)
          \/ AcquireInferLock(t)
          \/ CheckModel(t)
          \/ LoadModel(t)
          \/ ReleaseInferLock(t)
          \/ PredictBegin(t)
          \/ PredictEnd(t)
    \/ CreateModelFile

SpecSvc == InitSvc /\ [][NextSvc]_vars

-----------------------------------------------------------------------------
(* get_yolo26_service and DualCameraIBRProcessor.__init__ from several threads *)

\* Two VisionConfig objects that differ (in model path, confidence or IoU threshold).
ConfigIds == {1, 2}

\* DualCameraIBRProcessor(vision_config, yolo_service): with a service passed in
\* the constructor keeps it, without one it calls get_yolo26_service(vision_config).
NewProcessor(t, cfg, explicit) ==
    /\ UNCHANGED <<procVars, svcVars, maskVars, extVars>>
    /\ gpc[t] \in {"idle", "done"}
    /\ garg' = [garg EXCEPT ![t] = [vision_config |-> cfg, yolo_service |-> explicit]]
    /\ IF explicit
       THEN /\ processors' = [processors EXCEPT ![t] = -t]
            /\ gpc' = [gpc EXCEPT ![t] = "done"]
       ELSE /\ processors' = [processors EXCEPT ![t] = 0]
            /\ gpc' = [gpc EXCEPT ![t] = "lock"]
    /\ UNCHANGED <<instance, glock, services>>

\* Mutant: the with statement does not wait for the lock.
AcquireLock_NoWait(t) ==
    /\ UNCHANGED <<procVars, svcVars, maskVars, extVars>>
    /\ gpc[t] = "lock"
    /\ glock' = t
    /\ gpc' = [gpc EXCEPT ![t] = "check"]
    /\ UNCHANGED <<instance, services, garg, processors>>

\* with _lock: enter once the lock is free.
AcquireLock(t) ==
    /\ UNCHANGED <<procVars, svcVars, maskVars, extVars>>
    /\ gpc[t] = "lock"
    /\ glock = 0
    /\ glock' = t
    /\ gpc' = [gpc EXCEPT ![t] = "check"]
    /\ UNCHANGED <<instance, services, garg, processors>>

\* if _instance is None
CheckInstance(t) ==
    /\ UNCHANGED <<procVars, svcVars, maskVars, extVars>>
    /\ gpc[t] = "check"
    /\ gpc' = [gpc EXCEPT ![t] = IF instance = 0 THEN "construct" ELSE "return"]
    /\ UNCHANGED <<instance, glock, services, garg, processors>>

\* _instance = YOLO26Service(vision_config)
ConstructService(t) ==
    /\ UNCHANGED <<procVars, svcVars, maskVars, extVars>>
    /\ gpc[t] = "construct"
    /\ services' = Append(services, [vision_config |-> garg[t].vision_config])
    /\ instance' = Len(services) + 1
    /\ gpc' = [gpc EXCEPT ![t] = "return"]
    /\ UNCHANGED <<glock, garg, processors>>

\* return _instance, leaving the with block; the constructor stores it in self._service.
ReturnInstance(t) ==
    /\ UNCHANGED <<procVars, svcVars, maskVars, extVars>>
    /\ gpc[t] = "return"
    /\ processors' = [processors EXCEPT ![t] = instance]
    /\ glock' = 0
    /\ gpc' = [gpc EXCEPT ![t] = "done"]
    /\ UNCHANGED <<instance, services, garg>>

InitSingleton ==
    /\ instance = 0
    /\ glock = 0
    /\ services = <<>>
    /\ gpc = [t \in Threads |-> "idle"]
    /\ garg = [t \in Threads |-> [vision_config |-> 1, yolo_service |-> FALSE]]
    /\ processors = [t \in Threads |-> 0]
    /\ ProcIdle /\ SvcIdle /\ MaskIdle /\ ExtIdle

NextSingleton ==
    \E t \in Threads :
        \/ \E cfg \in ConfigIds, explicit \in BOOLEAN : NewProcessor(t, cfg, explicit)
        \/ AcquireLock(t)
        \/ CheckInstance(t)
        \/ ConstructService(t)
        \/ ReturnInstance(t)

SpecSingleton == InitSingleton /\ [][NextSingleton]_vars

-----------------------------------------------------------------------------
(* YOLO26Service.segment after predict: from the model's output to the mask.
   An array is a record [h, w, data] with data a function on (1..h) \X (1..w).
   A probability is written in tenths: 7 is 0.7. *)

Dims == {1, 2}
Probs == {0, 5, 7, 10}

Cells(h, w) == (1..h) \X (1..w)

\* masks.data[i]: every float array of a height and width in Dims
InstanceMasks ==
    UNION {{[h |-> mh, w |-> mw, data |-> d] : d \in [Cells(mh, mw) -> Probs]} :
           <<mh, mw>> \in Dims \X Dims}

\* The instance masks that come second in a result holding two.
SecondMasks == {m \in InstanceMasks : \A c \in DOMAIN m.data, d \in DOMAIN m.data : m.data[c] = m.data[d]}

\* What predict can return: an empty list, a result without masks, a result
\* with a Masks object of length 0, one or two instance masks.
ModelOutputs ==
    {[kind |-> k, masks |-> <<>>] : k \in {"no_results", "masks_none", "masks"}}
    \cup {[kind |-> "masks", masks |-> <<m>>] : m \in InstanceMasks}
    \cup {[kind |-> "masks", masks |-> <<m, n>>] : m \in InstanceMasks, n \in SecondMasks}

Min(a, b) == IF a <= b THEN a ELSE b

\* m.astype(np.uint8) of a value in [0, 1]: the fraction is cut off
AsUint8(p) == (p \div 10) * 10

\* (np.arange(n) * src / n).astype(np.int32).clip(0, src - 1), and the source
\* index cv2.INTER_NEAREST takes; i and the result count from 1
NearestIndex(i, src, n) == Min(((i - 1) * src) \div n, src - 1) + 1

Source(m, h, w, c) == m.data[<<NearestIndex(c[1], m.h, h), NearestIndex(c[2], m.w, w)>>]

\* cv2.resize(m.astype(np.uint8), (w, h), interpolation=cv2.INTER_NEAREST)
Cv2Resize(m, h, w) == [h |-> h, w |-> w, data |-> [c \in Cells(h, w) |-> AsUint8(Source(m, h, w, c))]]

\* m[np.ix_(y_idx, x_idx)]
IndexResample(m, h, w) == [h |-> h, w |-> w, data |-> [c \in Cells(h, w) |-> Source(m, h, w, c)]]

Resample(cv2, m, h, w) ==
    IF m.h # h \/ m.w # w
    THEN IF cv2 THEN Cv2Resize(m, h, w) ELSE IndexResample(m, h, w)
    ELSE m

Binarize_NoScale(m) == [h |-> m.h, w |-> m.w, data |-> [c \in Cells(m.h, m.w) |-> IF m.data[c] > 5 THEN 1 ELSE 0]]

\* (m > 0.5).astype(np.uint8) * 255
Binarize(m) == [h |-> m.h, w |-> m.w, data |-> [c \in Cells(m.h, m.w) |-> IF m.data[c] > 5 THEN 255 ELSE 0]]

\* np.maximum(a, b)
Maximum(a, b) == [h |-> a.h, w |-> a.w, data |-> [c \in Cells(a.h, a.w) |-> Max(a.data[c], b.data[c])]]

Zeros(h, w) == [h |-> h, w |-> w, data |-> [c \in Cells(h, w) |-> 0]]

RECURSIVE CombineMasks(_, _, _, _, _)
CombineMasks(cv2, h, w, masks_np, mask_combined) ==
    IF masks_np = <<>> THEN mask_combined
    ELSE CombineMasks(cv2, h, w, Tail(masks_np),
                      Maximum(mask_combined, Binarize(Resample(cv2, Head(masks_np), h, w))))

SegmentMask(cv2, h, w, results) ==
    IF results.kind \in {"no_results", "masks_none"} \/ Len(results.masks) = 0
    THEN Zeros(h, w)
    ELSE CombineMasks(cv2, h, w, results.masks, Zeros(h, w))

\* A call of segment whose predict returned results for a frame of h rows and w
\* columns, with OpenCV importable or not.
SegmentCalls ==
    [fn : {"call"}, cv2 : BOOLEAN, h : Dims, w : Dims, results : ModelOutputs]

SegmentReturn ==
    /\ sg.fn = "call"
    /\ sg' = [fn |-> "segment", cv2 |-> sg.cv2, h |-> sg.h, w |-> sg.w, results |-> sg.results,
              mask |-> SegmentMask(sg.cv2, sg.h, sg.w, sg.results)]
    /\ UNCHANGED <<procVars, svcVars, singVars, maskVars, asyncVars, sess, lv, disp, ext2Vars>>

InitSeg ==
    /\ sg \in SegmentCalls
    /\ ProcIdle /\ SvcIdle /\ SingIdle /\ MaskIdle /\ AsyncIdle /\ SessIdle /\ CfgIdle /\ DispIdle /\ Ext2Idle

NextSeg == SegmentReturn

SpecSeg == InitSeg /\ [][NextSeg]_vars

-----------------------------------------------------------------------------
(* teleop_loop and _ibr_worker in async mode: the loop submits each observation
   to a queue of size 1 and reads the shared buffer; the worker processes what
   it takes from the queue and publishes the result under the lock.
   An observation is a function from its keys to [id, processed]: id numbers
   the tick it was read in, processed tells the output of
   _apply_dual_camera_processor from the raw observation. *)

MaxTicks == 3

QueueMaxSize == 1

\* the None that tells the worker to stop
Sentinel == 0

ObsKeyOrder == <<"gripper", "top">>
ObsKeys == {ObsKeyOrder[i] : i \in DOMAIN ObsKeyOrder}

RawObs(n) == [k \in ObsKeys |-> [id |-> n, processed |-> FALSE]]

ProcessedObs(n) == [k \in ObsKeys |-> [id |-> n, processed |-> TRUE]]

EmptyDict == [k \in {} |-> 0]

PutNowait_Unbounded(q, item) == [queue |-> Append(q, item), full |-> FALSE]

\* Queue.put_nowait: queue.Full when maxsize items are waiting
PutNowait(q, item) ==
    IF Len(q) >= QueueMaxSize THEN [queue |-> q, full |-> TRUE]
    ELSE [queue |-> Append(q, item), full |-> FALSE]

NotAsync == UNCHANGED <<procVars, svcVars, singVars, maskVars, sg, sess, lv, disp, ext2Vars>>

\* Mutant: the loop calls the processor itself in async mode too.
LoopGetObservation_AlwaysApplies ==
    /\ lpc = "get_observation" /\ tick < MaxTicks
    /\ tick' = tick + 1
    /\ lpc' = "apply"
    /\ UNCHANGED <<queue, shared, shared_lock, wpc, wobs, used, hist>>
    /\ NotAsync

\* obs = robot.get_observation(); then the branch on ibr_async_state
LoopGetObservation ==
    /\ lpc = "get_observation" /\ tick < MaxTicks
    /\ tick' = tick + 1
    /\ lpc' = IF ibr_async THEN "put_nowait" ELSE "apply"
    /\ UNCHANGED <<queue, shared, shared_lock, wpc, wobs, used, hist>>
    /\ NotAsync

\* try: queue.put_nowait(obs) except Exception: pass
LoopPutNowait ==
    /\ lpc = "put_nowait"
    /\ LET r == PutNowait(queue, tick) IN
        /\ queue' = r.queue
        /\ hist' = [hist EXCEPT !.put = Append(@, [full |-> r.full, queued |-> ~r.full])]
    /\ lpc' = "lock"
    /\ UNCHANGED <<shared, shared_lock, wpc, tick, wobs, used>>
    /\ NotAsync

LoopAcquireLock_NoWait ==
    /\ lpc = "lock"
    /\ shared_lock' = "loop"
    /\ lpc' = "read"
    /\ UNCHANGED <<queue, shared, wpc, tick, wobs, used, hist>>
    /\ NotAsync

\* with ibr_async_state["lock"]: entry
LoopAcquireLock ==
    /\ lpc = "lock" /\ shared_lock = "free"
    /\ shared_lock' = "loop"
    /\ lpc' = "read"
    /\ UNCHANGED <<queue, shared, wpc, tick, wobs, used, hist>>
    /\ NotAsync

\* obs_processed = dict(shared) if shared else obs
LoopRead ==
    /\ lpc = "read"
    /\ used' = [tick |-> tick,
                value |-> IF DOMAIN shared # {} THEN shared ELSE RawObs(tick),
                published |-> hist.published]
    /\ lpc' = "unlock"
    /\ UNCHANGED <<queue, shared, shared_lock, wpc, tick, wobs, hist>>
    /\ NotAsync

\* with ibr_async_state["lock"]: exit
LoopReleaseLock ==
    /\ lpc = "unlock"
    /\ shared_lock' = "free"
    /\ lpc' = "act"
    /\ UNCHANGED <<queue, shared, wpc, tick, wobs, used, hist>>
    /\ NotAsync

\* obs_processed = _apply_dual_camera_processor(obs, ...) in the control loop
LoopApply ==
    /\ lpc = "apply"
    /\ used' = [tick |-> tick, value |-> ProcessedObs(tick), published |-> hist.published]
    /\ lpc' = "act"
    /\ UNCHANGED <<queue, shared, shared_lock, wpc, tick, wobs, hist>>
    /\ NotAsync

\* the rest of the tick, then while True again
LoopNextTick ==
    /\ lpc = "act"
    /\ lpc' = "get_observation"
    /\ UNCHANGED <<queue, shared, shared_lock, wpc, tick, wobs, used, hist>>
    /\ NotAsync

\* duration reached: return
LoopReturn ==
    /\ lpc = "act"
    /\ lpc' = "finally"
    /\ UNCHANGED <<queue, shared, shared_lock, wpc, tick, wobs, used, hist>>
    /\ NotAsync

\* KeyboardInterrupt, or an error of the robot, outside the with block
LoopInterrupted ==
    /\ lpc \in {"get_observation", "put_nowait", "lock", "apply"}
    /\ lpc' = "finally"
    /\ UNCHANGED <<queue, shared, shared_lock, wpc, tick, wobs, used, hist>>
    /\ NotAsync

\* finally: queue.put(None, timeout=0.5), with room in the queue before the timeout
PutSentinel ==
    /\ lpc = "finally" /\ ibr_async /\ Len(queue) < QueueMaxSize
    /\ queue' = Append(queue, Sentinel)
    /\ lpc' = "done"
    /\ UNCHANGED <<shared, shared_lock, wpc, tick, wobs, used, hist>>
    /\ NotAsync

\* finally: queue.put(None, timeout=0.5) raises queue.Full after the timeout; except: pass.
\* The queue stays full for the 0.5 s only while the worker is busy with an
\* earlier observation: a worker waiting in get takes the item at once.
PutSentinelTimeout ==
    /\ lpc = "finally" /\ ibr_async /\ Len(queue) >= QueueMaxSize
    /\ wpc \notin {"get", "done"}
    /\ lpc' = "done"
    /\ UNCHANGED <<queue, shared, shared_lock, wpc, tick, wobs, used, hist>>
    /\ NotAsync

\* finally: if ibr_async_state is not None is false, nothing is put
FinallyWithoutWorker ==
    /\ lpc = "finally" /\ ~ibr_async
    /\ lpc' = "done"
    /\ UNCHANGED <<queue, shared, shared_lock, wpc, tick, wobs, used, hist>>
    /\ NotAsync

\* obs = queue.get(timeout=1.0); if obs is None: break
\* (queue.Empty after the timeout is caught and the loop goes on: no change)
WorkerGet ==
    /\ wpc = "get" /\ queue # <<>>
    /\ queue' = Tail(queue)
    /\ IF Head(queue) = Sentinel
       THEN wpc' = "done" /\ UNCHANGED wobs
       ELSE wpc' = "process" /\ wobs' = [obs |-> Head(queue), processed |-> EmptyDict]
    /\ UNCHANGED <<shared, shared_lock, lpc, tick, used, hist>>
    /\ NotAsync

\* processed = _apply_dual_camera_processor(obs, ...)
WorkerProcess ==
    /\ wpc = "process"
    /\ wobs' = [wobs EXCEPT !.processed = ProcessedObs(wobs.obs)]
    /\ wpc' = "lock"
    /\ UNCHANGED <<queue, shared, shared_lock, lpc, tick, used, hist>>
    /\ NotAsync

\* _apply_dual_camera_processor raises; except Exception: continue
WorkerProcessRaises ==
    /\ wpc = "process"
    /\ wpc' = "get"
    /\ UNCHANGED <<queue, shared, shared_lock, lpc, tick, wobs, used, hist>>
    /\ NotAsync

\* with lock: entry
WorkerAcquireLock ==
    /\ wpc = "lock" /\ shared_lock = "free"
    /\ shared_lock' = "worker"
    /\ wpc' = "clear"
    /\ UNCHANGED <<queue, shared, lpc, tick, wobs, used, hist>>
    /\ NotAsync

\* shared.clear()
WorkerClear ==
    /\ wpc = "clear"
    /\ shared' = EmptyDict
    /\ wpc' = "update"
    /\ UNCHANGED <<queue, shared_lock, lpc, tick, wobs, used, hist>>
    /\ NotAsync

\* shared.update(processed), one key at a time in the order of processed
WorkerUpdate ==
    /\ wpc = "update"
    /\ LET i == Cardinality(DOMAIN shared) + 1
           k == ObsKeyOrder[i]
       IN  /\ shared' = [j \in DOMAIN shared \cup {k} |->
                            IF j = k THEN wobs.processed[k] ELSE shared[j]]
           /\ IF i = Len(ObsKeyOrder)
              THEN wpc' = "unlock" /\ hist' = [hist EXCEPT !.published = @ + 1]
              ELSE wpc' = "update" /\ UNCHANGED hist
    /\ UNCHANGED <<queue, shared_lock, lpc, tick, wobs, used>>
    /\ NotAsync

\* with lock: exit
WorkerReleaseLock ==
    /\ wpc = "unlock"
    /\ shared_lock' = "free"
    /\ wpc' = "get"
    /\ UNCHANGED <<queue, shared, lpc, tick, wobs, used, hist>>
    /\ NotAsync

\* teleoperate has made the queue, the buffer and the lock and started the worker
InitAsync ==
    /\ queue = <<>>
    /\ shared = EmptyDict
    /\ shared_lock = "free"
    /\ lpc = "get_observation"
    /\ wpc = "get"
    /\ tick = 0
    /\ wobs = [obs |-> Sentinel, processed |-> EmptyDict]
    /\ used = [tick |-> 0, value |-> EmptyDict, published |-> 0]
    /\ hist = [put |-> <<>>, published |-> 0]
    /\ ProcIdle /\ SvcIdle /\ SingIdle /\ MaskIdle /\ SegIdle /\ SessIdle /\ CfgIdle /\ DispIdle /\ Ext2Idle

NextAsync ==
    \/ LoopGetObservation
    \/ LoopPutNowait
    \/ LoopAcquireLock
    \/ LoopRead
    \/ LoopReleaseLock
    \/ LoopNextTick
    \/ LoopReturn
    \/ LoopInterrupted
    \/ PutSentinel
    \/ PutSentinelTimeout
    \/ WorkerGet
    \/ WorkerProcess
    \/ WorkerProcessRaises
    \/ WorkerAcquireLock
    \/ WorkerClear
    \/ WorkerUpdate
    \/ WorkerReleaseLock

SpecAsync == InitAsync /\ [][NextAsync]_vars

\* The steps of the main thread and of the worker thread.
LoopNext ==
    \/ LoopGetObservation \/ LoopPutNowait \/ LoopAcquireLock \/ LoopRead
    \/ LoopReleaseLock \/ LoopNextTick \/ LoopReturn \/ LoopInterrupted
    \/ PutSentinel \/ PutSentinelTimeout

WorkerNext ==
    \/ WorkerGet \/ WorkerProcess \/ WorkerProcessRaises \/ WorkerAcquireLock
    \/ WorkerClear \/ WorkerUpdate \/ WorkerReleaseLock

\* Both threads are scheduled: a thread that can take a step eventually takes one.
SpecAsyncFair == SpecAsync /\ WF_vars(LoopNext) /\ WF_vars(WorkerNext)

\* A session in either mode: teleoperate makes ibr_async_state and starts the
\* worker when ibr_enabled and cfg.display_data, and otherwise passes None.
InitLoop ==
    /\ ibr_async \in BOOLEAN
    /\ queue = <<>>
    /\ shared = EmptyDict
    /\ shared_lock = "free"
    /\ lpc = "get_observation"
    /\ wpc = IF ibr_async THEN "get" ELSE "off"
    /\ tick = 0
    /\ wobs = [obs |-> Sentinel, processed |-> EmptyDict]
    /\ used = [tick |-> 0, value |-> EmptyDict, published |-> 0]
    /\ hist = [put |-> <<>>, published |-> 0]
    /\ ProcIdle /\ SvcIdle /\ SingIdle /\ MaskIdle /\ SegIdle /\ SessIdle /\ CfgIdle /\ DispIdle
    /\ WarnIdle /\ AliasIdle /\ BrightIdle /\ StepIdle

NextLoop ==
    \/ LoopGetObservation
    \/ LoopPutNowait
    \/ LoopAcquireLock
    \/ LoopRead
    \/ LoopReleaseLock
    \/ LoopApply
    \/ LoopNextTick
    \/ LoopReturn
    \/ LoopInterrupted
    \/ PutSentinel
    \/ PutSentinelTimeout
    \/ FinallyWithoutWorker
    \/ WorkerGet
    \/ WorkerProcess
    \/ WorkerProcessRaises
    \/ WorkerAcquireLock
    \/ WorkerClear
    \/ WorkerUpdate
    \/ WorkerReleaseLock

SpecLoop == InitLoop /\ [][NextLoop]_vars

-----------------------------------------------------------------------------
(* get_camera_role and _apply_dual_camera_processor.
   An observation is a function from its keys to values: a frame under a
   camera key, a number under a motor key. robot_observation_features gives
   "tuple" (the shape of an image) or "float" for the keys it knows. *)

\* get_camera_role returns None
NoRole == "None"

GetCameraRole_TopFirst(camera_key, keys) ==
    IF camera_key = keys.top_camera_key THEN TOP
    ELSE IF camera_key = keys.gripper_camera_key THEN GRIPPER
    ELSE NoRole

GetCameraRole(camera_key, keys) ==
    IF camera_key = keys.gripper_camera_key THEN GRIPPER
    ELSE IF camera_key = keys.top_camera_key THEN TOP
    ELSE NoRole

\* The for loop over the keys of out, in the order of the dictionary. acc holds
\* out, the processor's fields and the calls of processor.process made so far;
\* seg[key] is what the service does if the call for key reaches it.
RECURSIVE ApplyKeys(_, _, _, _, _, _, _)
ApplyKeys(cfg, cv2, keys, features, seg, order, acc) ==
    IF order = <<>> THEN acc
    ELSE LET key == Head(order)
             role == GetCameraRole(key, keys)
         IN IF key \notin DOMAIN features \/ features[key] # "tuple"
            THEN ApplyKeys(cfg, cv2, keys, features, seg, Tail(order), acc)
            ELSE IF role # NoRole
            THEN LET r == ProcessOp(cfg, cv2, acc.st, acc.out[key], role, seg[key])
                 IN ApplyKeys(cfg, cv2, keys, features, seg, Tail(order),
                              [out |-> [acc.out EXCEPT ![key] = r.ret],
                               st |-> r.st,
                               calls |-> Append(acc.calls,
                                                [key |-> key, role |-> role, image |-> acc.out[key],
                                                 segmented |-> r.called /\ ~r.failed,
                                                 applied |-> r.applied # None])])
            ELSE ApplyKeys(cfg, cv2, keys, features, seg, Tail(order), acc)

\* _apply_dual_camera_processor(obs, processor, vision_config, robot_observation_features)
ApplyDualCameraProcessor(cfg, cv2, keys, features, st, obs, order, seg) ==
    ApplyKeys(cfg, cv2, keys, features, seg, order, [out |-> obs, st |-> st, calls |-> <<>>])

-----------------------------------------------------------------------------
(* teleoperate: the set-up that decides about IBR and the worker, and the ticks
   in which every observation goes through _apply_dual_camera_processor (called
   by the loop, or by the worker when it was started). The processor's service
   is a YOLO26Service on the configured model path. *)

MaxSessTicks == 2

\* VisionConfig.gripper_camera_key and top_camera_key as the dataclass sets them
DefaultKeys == [gripper_camera_key |-> "gripper", top_camera_key |-> "top"]

SessOrder == <<"gripper", "top", "shoulder_pan.pos">>

\* robot.observation_features: two cameras and a motor
SessFeatures ==
    [k \in {"gripper", "top", "shoulder_pan.pos"} |->
        IF k = "shoulder_pan.pos" THEN "float" ELSE "tuple"]

SessObs(gripper_frame, top_frame) ==
    [k \in {"gripper", "top", "shoulder_pan.pos"} |->
        IF k = "gripper" THEN gripper_frame ELSE IF k = "top" THEN top_frame ELSE 0]

\* What segment does in a session: with no model loaded and no file at the
\* configured path _load_model raises (an empty path names the working
\* directory, which YOLO cannot load); otherwise the model answers with a mask.
SessSegOutcomes(s) ==
    IF s.model_loaded \/ (s.model_path # "" /\ s.file_exists)
    THEN {[raises |-> FALSE, mask |-> m] : m \in ServiceMasks}
    ELSE {[raises |-> TRUE, mask |-> None]}

IbrRequested(cfg) == cfg.gripper_use_ibr \/ cfg.top_use_ibr

\* lines 287-291
IbrEnabled(s) == IbrRequested(s.config) /\ s.model_path # "" /\ s.file_exists

\* teleoperate up to the start of teleop_loop
SessSetup ==
    /\ sess.phase = "setup"
    /\ sess' = [sess EXCEPT
                  !.phase = "loop",
                  !.ibr_enabled = IbrEnabled(sess),
                  !.missing_at_start = ~sess.file_exists,
                  !.warned = ~IbrEnabled(sess) /\ sess.model_path # "" /\ IbrRequested(sess.config),
                  !.worker = IbrEnabled(sess) /\ sess.display_data]
    /\ UNCHANGED <<procVars, svcVars, singVars, maskVars, sg, asyncVars, lv, disp, ext2Vars>>

\* One observation goes through _apply_dual_camera_processor.
SessTick ==
    /\ sess.phase = "loop" /\ sess.ticks < MaxSessTicks
    /\ \E gripper_frame \in CameraFrames, top_frame \in CameraFrames, seg \in SessSegOutcomes(sess) :
        LET obs == SessObs(gripper_frame, top_frame)
            r == ApplyDualCameraProcessor(sess.config, sess.cv2, DefaultKeys, SessFeatures,
                                          sess.st, obs, SessOrder,
                                          [k \in DOMAIN obs |-> seg])
            segmented == \E i \in DOMAIN r.calls : r.calls[i].segmented
        IN sess' = [sess EXCEPT
                      !.ticks = @ + 1,
                      !.obs = obs,
                      !.out = r.out,
                      !.calls = r.calls,
                      !.st = r.st,
                      !.model_loaded = @ \/ segmented]
    /\ UNCHANGED <<procVars, svcVars, singVars, maskVars, sg, asyncVars, lv, disp, ext2Vars>>

\* The environment: the file shows up at the configured path.
ModelFileAppears ==
    /\ sess.phase \in {"setup", "loop"}
    /\ sess.model_path # "" /\ ~sess.file_exists
    /\ sess' = [sess EXCEPT !.file_exists = TRUE]
    /\ UNCHANGED <<procVars, svcVars, singVars, maskVars, sg, asyncVars, lv, disp, ext2Vars>>

SessConfigs == {c \in Configs : c.segmentation_frame_skip = 2}

InitSess ==
    /\ \E cfg \in SessConfigs, cv2 \in BOOLEAN, path \in {"", "yolo26n-seg.pt"},
          exists \in BOOLEAN, display_data \in BOOLEAN :
          /\ path = "" => ~exists
          /\ sess = [phase |-> "setup", config |-> cfg, cv2 |-> cv2, model_path |-> path,
                     file_exists |-> exists, display_data |-> display_data,
                     ibr_enabled |-> FALSE, missing_at_start |-> FALSE, warned |-> FALSE,
                     worker |-> FALSE, model_loaded |-> FALSE, ticks |-> 0,
                     obs |-> <<>>, out |-> <<>>, calls |-> <<>>,
                     st |-> [frame_count |-> 0, last_mask |-> None, fallback_warn_count |-> 0]]
    /\ ProcIdle /\ SvcIdle /\ SingIdle /\ MaskIdle /\ SegIdle /\ AsyncIdle /\ CfgIdle /\ DispIdle /\ Ext2Idle

NextSess ==
    \/ SessSetup
    \/ SessTick
    \/ ModelFileAppears

SpecSess == InitSess /\ [][NextSess]_vars

-----------------------------------------------------------------------------
(* load_vision_config(config_path) as a function of the path, of the file
   behind it and of whether PyYAML can be imported. The file is given by what
   the calls on it do: exists(), read_text(), and the parser on its text. *)

\* config_path is None
NonePath == "None"

ConfigPaths == {"vision.yaml", "vision.YML", "vision.json", "vision.toml"}

\* path.suffix.lower()
Suffix(path) ==
    CASE path = "vision.yaml" -> ".yaml"
      [] path = "vision.YML" -> ".yml"
      [] path = "vision.json" -> ".json"
      [] path = "vision.toml" -> ".toml"

\* VisionConfig(): the fields of the dataclass that the model carries, with their defaults
DefaultVisionConfig ==
    [gripper_use_ibr |-> TRUE, top_use_ibr |-> FALSE, segmentation_model_path |-> "",
     segmentation_frame_skip |-> 2, gripper_camera_key |-> "gripper", top_camera_key |-> "top",
     gripper_brightness |-> One, gripper_contrast |-> One, gripper_gamma |-> 1,
     gripper_brightness_stabilize |-> FALSE,
     top_brightness |-> One, top_contrast |-> One, top_gamma |-> 1,
     top_brightness_stabilize |-> FALSE]

\* {f.name for f in fields(VisionConfig)}
ValidKeys == DOMAIN DefaultVisionConfig

\* The values a file may give to the keys it holds; "comment" is no field of VisionConfig.
FileValues ==
    [gripper_use_ibr : {TRUE, FALSE}, segmentation_frame_skip : {2, 5},
     gripper_camera_key : {"wrist"}, comment : {"bench 3"}]

FileKeys == {"gripper_use_ibr", "segmentation_frame_skip", "gripper_camera_key", "comment"}

\* The mappings a file may hold: any subset of those keys, each with one of its values.
FileMappings == {[k \in ks |-> v[k]] : v \in FileValues, ks \in SUBSET FileKeys}

\* What the parser makes of the text: it raises, or returns something that is
\* no dict (a list, a scalar, None), or returns a dict.
Parsed ==
    {[kind |-> k, data |-> <<>>] : k \in {"malformed", "not_a_dict"}}
    \cup {[kind |-> "dict", data |-> d] : d \in FileMappings}

\* read_text(): the text, an OSError, or bytes that are no valid text
ReadOutcomes == {"text", "OSError", "UnicodeDecodeError"}

NoFile == [exists |-> FALSE, read |-> "OSError", parsed |-> [kind |-> "malformed", data |-> <<>>]]

Files ==
    {NoFile} \cup
    {[exists |-> TRUE, read |-> r, parsed |-> [kind |-> "malformed", data |-> <<>>]] :
         r \in ReadOutcomes \ {"text"}} \cup
    {[exists |-> TRUE, read |-> "text", parsed |-> p] : p \in Parsed}

Default(warned) == [raised |-> "None", config |-> DefaultVisionConfig, warned |-> warned]

Raise(e) == [raised |-> e, config |-> <<>>, warned |-> FALSE]

\* lines 116-117
Filtered(data) == [k \in DOMAIN data \cap ValidKeys |-> data[k]]

MakeVisionConfig_Defaults(filtered) == DefaultVisionConfig

\* VisionConfig(**filtered)
MakeVisionConfig(filtered) ==
    [f \in ValidKeys |-> IF f \in DOMAIN filtered THEN filtered[f] ELSE DefaultVisionConfig[f]]

\* lines 111-118
FromData(parsed) ==
    IF parsed.kind # "dict" THEN Default(TRUE)
    ELSE [raised |-> "None", config |-> MakeVisionConfig(Filtered(parsed.data)), warned |-> FALSE]

LoadVisionConfig(config_path, file, yaml_available) ==
    IF config_path = NonePath \/ config_path = "" THEN Default(FALSE)
    ELSE IF ~file.exists THEN Default(TRUE)
    ELSE IF file.read = "OSError" THEN Default(TRUE)
    ELSE IF file.read = "UnicodeDecodeError" THEN Raise("UnicodeDecodeError")
    ELSE IF Suffix(config_path) \in {".yaml", ".yml"}
         THEN IF ~yaml_available THEN Default(TRUE)
              ELSE IF file.parsed.kind = "malformed" THEN Default(TRUE)
              ELSE FromData(file.parsed)
    ELSE IF Suffix(config_path) = ".json"
         THEN IF file.parsed.kind = "malformed" THEN Default(TRUE)
              ELSE FromData(file.parsed)
    ELSE Default(TRUE)

LoadCalls ==
    {[fn |-> "call", config_path |-> p, file |-> NoFile, yaml_available |-> y] :
         p \in {NonePath, ""}, y \in BOOLEAN}
    \cup [fn : {"call"}, config_path : ConfigPaths, file : Files, yaml_available : BOOLEAN]

LoadVisionConfigReturn ==
    /\ lv.fn = "call"
    /\ LET r == LoadVisionConfig(lv.config_path, lv.file, lv.yaml_available)
       IN lv' = [fn |-> "load_vision_config", config_path |-> lv.config_path, file |-> lv.file,
                 yaml_available |-> lv.yaml_available,
                 raised |-> r.raised, config |-> r.config, warned |-> r.warned]
    /\ UNCHANGED <<procVars, svcVars, singVars, maskVars, sg, asyncVars, sess, disp, ext2Vars>>

InitCfg ==
    /\ lv \in LoadCalls
    /\ ProcIdle /\ SvcIdle /\ SingIdle /\ MaskIdle /\ SegIdle /\ AsyncIdle /\ SessIdle /\ DispIdle /\ Ext2Idle

NextCfg == LoadVisionConfigReturn

SpecCfg == InitCfg /\ [][NextCfg]_vars

-----------------------------------------------------------------------------
(* One call of _apply_dual_camera_processor on a fresh processor, as a function
   of the configured camera keys, the robot's features and the observation. *)

DispOrder == <<"gripper", "top", "wrist">>
DispKeys == {DispOrder[i] : i \in DOMAIN DispOrder}

\* vision_config.gripper_camera_key and top_camera_key, equal or not
KeyConfigs == [gripper_camera_key : DispKeys, top_camera_key : DispKeys]

\* robot_observation_features: any of the keys may be missing, an image or a number
FeatureMaps == UNION {[ks -> {"tuple", "float"}] : ks \in SUBSET DispKeys}

\* Both views dark and IBR with every call gated in, so that process changes every frame it gets.
DispConfigs == {VisionConfig(gi, ti, 1, v, v) : gi \in BOOLEAN, ti \in BOOLEAN,
                                                v \in {w \in Views : ~IsNeutral(w.brightness)}}

DispCalls ==
    [fn : {"call"}, config : DispConfigs, keys : KeyConfigs, features : FeatureMaps,
     obs : [DispKeys -> CameraFrames], seg : SegOutcomes]

ApplyDualCameraProcessorReturn ==
    /\ disp.fn = "call"
    /\ LET r == ApplyDualCameraProcessor(disp.config, TRUE, disp.keys, disp.features,
                                         [frame_count |-> 0, last_mask |-> None,
                                          fallback_warn_count |-> 0],
                                         disp.obs, DispOrder, [k \in DispKeys |-> disp.seg])
       IN disp' = [fn |-> "_apply_dual_camera_processor", config |-> disp.config,
                   keys |-> disp.keys, features |-> disp.features, obs |-> disp.obs,
                   seg |-> disp.seg,
                   role |-> [k \in DispKeys |-> GetCameraRole(k, disp.keys)],
                   out |-> r.out, calls |-> r.calls]
    /\ UNCHANGED <<procVars, svcVars, singVars, maskVars, sg, asyncVars, sess, lv, ext2Vars>>

InitDisp ==
    /\ disp \in DispCalls
    /\ ProcIdle /\ SvcIdle /\ SingIdle /\ MaskIdle /\ SegIdle /\ AsyncIdle /\ SessIdle /\ CfgIdle /\ Ext2Idle

NextDisp == ApplyDualCameraProcessorReturn

SpecDisp == InitDisp /\ [][NextDisp]_vars

-----------------------------------------------------------------------------
(* DualCameraIBRProcessor over a long series of calls, with IBR on for the
   gripper camera only: every call goes through ProcessOp or ProcessWithMaskOp;
   the service raises or returns a mask. run counts the failed gated calls
   since the last successful one, succeeded says whether any segmentation has
   succeeded since construction, ibr_calls counts the calls for the IBR role. *)

MaxWarnCalls == 33

PlainView == [brightness |-> One, contrast |-> One, gamma |-> 1, stabilize |-> FALSE]

WarnConfigs == {VisionConfig(TRUE, FALSE, skip, PlainView, PlainView) : skip \in {1, 2}}

WarnFrame == CHOOSE f \in CameraFrames : TRUE

WarnOutcomes == {[raises |-> TRUE, mask |-> None],
                 [raises |-> FALSE, mask |-> [i \in 1..NPix |-> 255]]}

\* The state after a call whose result is r.
WarnCalled(op, camera_role, r) ==
    /\ fw' = [fn |-> op, config |-> fw.config, st |-> r.st, role |-> camera_role,
              before |-> fw.st, first |-> (fw.ibr_calls = 0),
              ibr_calls |-> IF ~UseIbr(fw.config, camera_role) THEN fw.ibr_calls
                            ELSE IF fw.ibr_calls = 0 THEN 1 ELSE 2,
              called |-> r.called, failed |-> r.failed, warned |-> r.warned,
              applied |-> r.applied,
              run |-> IF r.failed THEN fw.run + 1 ELSE IF r.called THEN 0 ELSE fw.run,
              succeeded |-> fw.succeeded \/ (r.called /\ ~r.failed)]
    /\ UNCHANGED <<procVars, svcVars, singVars, maskVars, sg, asyncVars, sess, lv, disp,
                   al, bp, ys, ibr_async>>

\* process(image, camera_role)
WarnProcess ==
    /\ fw.fn # "none" /\ fw.st.frame_count < MaxWarnCalls
    /\ \E camera_role \in CameraRole, seg \in WarnOutcomes :
        WarnCalled("process", camera_role,
                   ProcessOp(fw.config, TRUE, fw.st, WarnFrame, camera_role, seg))

\* process_with_mask(image, camera_role)
WarnProcessWithMask ==
    /\ fw.fn # "none" /\ fw.st.frame_count < MaxWarnCalls
    /\ \E camera_role \in CameraRole, seg \in WarnOutcomes :
        WarnCalled("process_with_mask", camera_role,
                   ProcessWithMaskOp(fw.config, TRUE, fw.st, WarnFrame, camera_role, seg))

\* DualCameraIBRProcessor.__init__
InitWarn ==
    /\ \E cfg \in WarnConfigs :
          fw = [fn |-> "new", config |-> cfg,
                st |-> [frame_count |-> 0, last_mask |-> None, fallback_warn_count |-> 0],
                role |-> GRIPPER, before |-> None, first |-> FALSE, ibr_calls |-> 0,
                called |-> FALSE, failed |-> FALSE, warned |-> FALSE, applied |-> None,
                run |-> 0, succeeded |-> FALSE]
    /\ ProcIdle /\ SvcIdle /\ SingIdle /\ MaskIdle /\ SegIdle /\ AsyncIdle /\ SessIdle
    /\ CfgIdle /\ DispIdle /\ AliasIdle /\ BrightIdle /\ StepIdle /\ ModeIdle

NextWarn == WarnProcess \/ WarnProcessWithMask

SpecWarn == InitWarn /\ [][NextWarn]_vars

-----------------------------------------------------------------------------
(* BrightnessReducePreprocessor. Floats are exact fractions <<numerator,
   denominator>> in lowest terms with a positive denominator. A frame is
   [rgb, mean_luminance]: whether it is an (H, W, 3) array, and the mean of its Y
   channel. The result of process records which corrections were applied. *)

MaxBrightCalls == 3

RECURSIVE GCD(_, _)
GCD(a, b) == IF b = 0 THEN a ELSE GCD(b, a % b)

\* The fraction n/d in lowest terms.
Rat(n, d) == LET g == GCD(IF n < 0 THEN -n ELSE n, d) IN <<n \div g, d \div g>>

\* a <= b on fractions
RLe(a, b) == a[1] * b[2] <= b[1] * a[2]

\* max(lo, min(hi, x)) on fractions
Clamp(lo, hi, x) == IF RLe(x, lo) THEN lo ELSE IF RLe(hi, x) THEN hi ELSE x

\* The arguments of the constructor: the defaults and values outside the ranges.
BrightArgs ==
    [luminance_threshold : {<<165, 1>>, <<300, 1>>},
     gamma : {<<7, 5>>, <<4, 5>>},
     brightness_scale : {<<1, 1>>, <<1, 2>>},
     gamma_ema_alpha : {<<17, 20>>, <<0, 1>>, <<3, 2>>},
     use_clahe : BOOLEAN]

BrightFrames == [rgb : BOOLEAN, mean_luminance : {100, 165, 200}]

\* Mutant: the weights of the previous value and of the target are exchanged.
EmaUpdate_Swapped(alpha, ema, target_gamma) ==
    Rat((alpha[2] - alpha[1]) * ema[1] * target_gamma[2]
           + alpha[1] * target_gamma[1] * ema[2],
        alpha[2] * ema[2] * target_gamma[2])

\* alpha * self._ema_gamma + (1.0 - alpha) * target_gamma
EmaUpdate(alpha, ema, target_gamma) ==
    Rat(alpha[1] * ema[1] * target_gamma[2]
           + (alpha[2] - alpha[1]) * target_gamma[1] * ema[2],
        alpha[2] * ema[2] * target_gamma[2])

\* target_gamma of process
TargetGamma(self, image) ==
    IF image.mean_luminance * self.luminance_threshold[2] <= self.luminance_threshold[1]
    THEN One ELSE self.gamma

\* if self._ema_gamma > 1.01
GammaApplies(ema) == ~RLe(ema, <<101, 100>>)

\* Nothing done to the copy of the frame.
Untouched == [gamma |-> None, scaled |-> FALSE, clahe |-> FALSE]

\* process(image): the new _ema_gamma and the corrections made to the copy.
BrightProcessOp(self, cv2, image) ==
    IF ~cv2 \/ ~image.rgb
    THEN [ema |-> self.ema, out |-> Untouched, updated |-> FALSE]
    ELSE LET ema == EmaUpdate(self.gamma_ema_alpha, self.ema, TargetGamma(self, image))
         IN [ema |-> ema,
             out |-> [gamma |-> IF GammaApplies(ema) THEN ema ELSE None,
                      scaled |-> GammaApplies(ema) /\ ~RLe(One, self.brightness_scale),
                      clahe |-> self.use_clahe],
             updated |-> TRUE]

\* process(image)
BrightProcess ==
    /\ bp.fn # "none" /\ bp.calls < MaxBrightCalls
    /\ \E image \in BrightFrames :
        LET r == BrightProcessOp(bp.self, bp.cv2, image)
        IN bp' = [fn |-> "process", self |-> [bp.self EXCEPT !.ema = r.ema], cv2 |-> bp.cv2,
                  calls |-> bp.calls + 1, image |-> image, prev |-> bp.self.ema,
                  out |-> r.out,
                  bright |-> bp.bright \/ TargetGamma(bp.self, image) # One]
    /\ UNCHANGED <<procVars, svcVars, singVars, maskVars, sg, asyncVars, sess, lv, disp,
                   fw, al, ys, ibr_async>>

\* reset()
BrightReset ==
    /\ bp.fn = "process"
    /\ bp' = [fn |-> "reset", self |-> [bp.self EXCEPT !.ema = One], cv2 |-> bp.cv2,
              calls |-> bp.calls, image |-> None, prev |-> bp.self.ema, out |-> Untouched,
              bright |-> FALSE]
    /\ UNCHANGED <<procVars, svcVars, singVars, maskVars, sg, asyncVars, sess, lv, disp,
                   fw, al, ys, ibr_async>>

\* BrightnessReducePreprocessor.__init__: every argument is clamped to its range.
InitBright ==
    /\ \E a \in BrightArgs, cv2 \in BOOLEAN :
          bp = [fn |-> "new",
                self |-> [luminance_threshold |-> Clamp(<<0, 1>>, <<255, 1>>, a.luminance_threshold),
                          gamma |-> IF RLe(a.gamma, One) THEN One ELSE a.gamma,
                          brightness_scale |-> Clamp(<<1, 100>>, One, a.brightness_scale),
                          gamma_ema_alpha |-> Clamp(<<0, 1>>, One, a.gamma_ema_alpha),
                          use_clahe |-> a.use_clahe,
                          ema |-> One],
                cv2 |-> cv2, calls |-> 0, image |-> None, prev |-> One, out |-> Untouched,
                bright |-> FALSE]
    /\ ProcIdle /\ SvcIdle /\ SingIdle /\ MaskIdle /\ SegIdle /\ AsyncIdle /\ SessIdle
    /\ CfgIdle /\ DispIdle /\ WarnIdle /\ AliasIdle /\ StepIdle /\ ModeIdle

NextBright == BrightProcess \/ BrightReset

SpecBright == InitBright /\ [][NextBright]_vars

-----------------------------------------------------------------------------
(* process_with_mask with the mask arrays as objects: heap maps the identity of
   each array to its contents, _last_mask and the returned mask are identities
   (0 stands for None), and the caller may write into the array it was given. *)

MaxAliasCalls == 3

AliasConfigs == {VisionConfig(TRUE, FALSE, skip, PlainView, PlainView) : skip \in {1, 2}}

\* np.ndarray.copy(): a new array with the same contents.
CopyArray(heap, ref) == [ref |-> Len(heap) + 1, heap |-> Append(heap, heap[ref])]

\* process_with_mask(image, CameraRole.GRIPPER) on the heap; seg is what
\* self._service.segment(image) does if it is called.
AliasProcessWithMaskOp(self, heap, image, seg) ==
    LET gate == ShouldRunSegmentation(self.config, self.frame_count)
        self1 == [self EXCEPT !.frame_count = gate.frame_count]
    IN IF gate.run /\ seg.raises
       THEN [self |-> self1, heap |-> heap, ret |-> image, ret_mask |-> 0, gated |-> TRUE,
             cached |-> FALSE]
       ELSE LET segmented == Append(heap, seg.mask)
                copied == CopyArray(segmented, Len(segmented))
                heap1 == IF gate.run THEN copied.heap ELSE heap
                mask == IF gate.run THEN Len(segmented) ELSE self.last_mask
                self2 == IF gate.run THEN [self1 EXCEPT !.last_mask = copied.ref] ELSE self1
            IN IF mask = 0
               THEN [self |-> self2, heap |-> heap1, ret |-> image, ret_mask |-> 0,
                     gated |-> FALSE, cached |-> FALSE]
               ELSE [self |-> self2, heap |-> heap1,
                     ret |-> StabilizeBrightness(self.config, TRUE,
                                                 ApplyMask(image, heap1[mask]).out, GRIPPER),
                     ret_mask |-> mask, gated |-> gate.run, cached |-> gate.run]

\* out, mask = processor.process_with_mask(image, CameraRole.GRIPPER)
AliasProcessWithMask ==
    /\ al.fn # "none" /\ al.self.frame_count < MaxAliasCalls
    /\ \E seg \in SegOutcomes :
        LET r == AliasProcessWithMaskOp(al.self, al.heap, WarnFrame, seg)
        IN al' = [fn |-> "process_with_mask", self |-> r.self, heap |-> r.heap,
                  ret |-> r.ret, ret_mask |-> r.ret_mask,
                  gated |-> r.gated,
                  delivered |-> IF r.cached THEN seg.mask ELSE al.delivered,
                  written |-> FALSE]
    /\ UNCHANGED <<procVars, svcVars, singVars, maskVars, sg, asyncVars, sess, lv, disp,
                   fw, bp, ys, ibr_async>>

\* The caller writes into the mask it was given: mask[i] = 0.
CallerWritesMask ==
    /\ al.fn = "process_with_mask" /\ al.ret_mask # 0
    /\ \E i \in 1..NPix :
        al' = [al EXCEPT !.fn = "caller",
                         !.heap = [@ EXCEPT ![al.ret_mask] = [@ EXCEPT ![i] = 0]],
                         !.written = TRUE]
    /\ UNCHANGED <<procVars, svcVars, singVars, maskVars, sg, asyncVars, sess, lv, disp,
                   fw, bp, ys, ibr_async>>

\* DualCameraIBRProcessor.__init__
InitAlias ==
    /\ \E cfg \in AliasConfigs :
          al = [fn |-> "new",
                self |-> [config |-> cfg, frame_count |-> 0, last_mask |-> 0],
                heap |-> <<>>, ret |-> None, ret_mask |-> 0, gated |-> FALSE,
                delivered |-> None, written |-> FALSE]
    /\ ProcIdle /\ SvcIdle /\ SingIdle /\ MaskIdle /\ SegIdle /\ AsyncIdle /\ SessIdle
    /\ CfgIdle /\ DispIdle /\ WarnIdle /\ BrightIdle /\ StepIdle /\ ModeIdle

NextAlias == AliasProcessWithMask \/ CallerWritesMask

SpecAlias == InitAlias /\ [][NextAlias]_vars

-----------------------------------------------------------------------------
(* YOLOIBRObservationProcessorStep.observation. An observation is given by the
   set of its keys; "gripper" and "top" hold (H, W, 3) images, "wrist.pos" holds
   an image under a key with ".pos", "state" holds a float. A mask is named by
   the key and by the number of the key's call whose segmentation produced it.
   _call_count and _cache are dictionaries: functions on the keys they hold. *)

MaxStepCalls == 5

StepKeyOrder == <<"gripper", "top", "wrist.pos", "state">>

StepImageKeys == {"gripper", "top"}

\* _is_image_array(value) and ".pos" not in key
IsSegmented(key) == key \in StepImageKeys

\* The observations: the other keys with any non-empty choice of cameras.
StepObservations == {cams \cup {"wrist.pos", "state"} : cams \in SUBSET StepImageKeys \ {{}}}

\* Mutant: the counter is not taken modulo max(n, 1).
NextCount_NoWrap(cnt, n) == cnt + 1

\* (cnt + 1) % max(n, 1)
NextCount(cnt, n) == (cnt + 1) % Max(n, 1)

\* dict.get(key, default)
DictGet(d, key, default) == IF key \in DOMAIN d THEN d[key] ELSE default

\* d[key] = value
DictSet(d, key, value) == [k \in DOMAIN d \cup {key} |-> IF k = key THEN value ELSE d[k]]

\* The body of the for loop for one key. acc holds _call_count, _cache, the
\* per-key history hist, what was done for each key, and whether
\* _run_segmentation has raised (which ends the call of observation).
StepKey(self, acc, key, raises) ==
    IF acc.raised \/ ~IsSegmented(key) THEN acc
    ELSE LET n == self.every_n_frames
             cnt == DictGet(acc.count, key, 0)
             count1 == DictSet(acc.count, key, NextCount(cnt, n))
             call == acc.hist[key] + 1
             hist1 == [acc.hist EXCEPT ![key] = call]
             done == [cnt |-> cnt, call |-> call, cached |-> key \in DOMAIN acc.cache,
                      ran |-> FALSE, raised |-> FALSE, mask |-> None, ibr |-> None]
         IN IF n > 1 /\ cnt # 0 /\ key \in DOMAIN acc.cache
            THEN [acc EXCEPT !.count = count1, !.hist = hist1,
                             !.done = DictSet(@, key, [done EXCEPT !.ran = FALSE,
                                                       !.raised = FALSE,
                                                       !.mask = acc.cache[key].mask,
                                                       !.ibr = IF self.mask_only THEN None
                                                               ELSE acc.cache[key].ibr])]
            ELSE IF raises
            THEN [acc EXCEPT !.count = count1, !.hist = hist1, !.raised = TRUE,
                             !.done = DictSet(@, key, [done EXCEPT !.ran = TRUE,
                                                       !.raised = TRUE])]
            ELSE LET mask == <<key, call>>
                     ibr_img == IF self.mask_only THEN None ELSE mask
                 IN [acc EXCEPT !.count = count1, !.hist = hist1,
                                !.cache = DictSet(@, key, [mask |-> mask, ibr |-> ibr_img]),
                                !.done = DictSet(@, key, [done EXCEPT !.ran = TRUE,
                                                          !.raised = FALSE,
                                                          !.mask = mask, !.ibr = ibr_img])]

\* for key, value in list(processed.items()), from the i-th key on
RECURSIVE StepLoop(_, _, _, _, _)
StepLoop(self, acc, obs, seg, i) ==
    IF i > Len(StepKeyOrder) THEN acc
    ELSE LET key == StepKeyOrder[i]
         IN StepLoop(self,
                     IF key \in obs THEN StepKey(self, acc, key, seg[key]) ELSE acc,
                     obs, seg, i + 1)

\* observation(observation); seg tells for each key whether _run_segmentation raises
StepObservation ==
    /\ ys.fn # "none"
    /\ \E obs \in StepObservations, seg \in [StepImageKeys -> BOOLEAN] :
        /\ \A k \in obs \cap StepImageKeys : ys.hist[k] < MaxStepCalls
        /\ LET r == StepLoop(ys.self,
                             [count |-> ys.count, cache |-> ys.cache, hist |-> ys.hist,
                              done |-> EmptyDict, raised |-> FALSE],
                             obs, seg, 1)
           IN ys' = [fn |-> "observation", self |-> ys.self, count |-> r.count,
                     cache |-> r.cache, hist |-> r.hist, obs |-> obs, done |-> r.done,
                     raised |-> r.raised]
    /\ UNCHANGED <<procVars, svcVars, singVars, maskVars, sg, asyncVars, sess, lv, disp,
                   fw, al, bp, ibr_async>>

\* the dataclass fields and __post_init__
InitStep ==
    /\ \E n \in 0..3, mask_only \in BOOLEAN :
          ys = [fn |-> "new", self |-> [every_n_frames |-> n, mask_only |-> mask_only],
                count |-> EmptyDict, cache |-> EmptyDict,
                hist |-> [k \in StepImageKeys |-> 0], obs |-> {}, done |-> EmptyDict,
                raised |-> FALSE]
    /\ ProcIdle /\ SvcIdle /\ SingIdle /\ MaskIdle /\ SegIdle /\ AsyncIdle /\ SessIdle
    /\ CfgIdle /\ DispIdle /\ WarnIdle /\ AliasIdle /\ BrightIdle /\ ModeIdle

NextStep == StepObservation

SpecStep == InitStep /\ [][NextStep]_vars

-----------------------------------------------------------------------------
(* Properties of DualCameraIBRProcessor, checked under Spec *)

IbrCall == last.op # "none" /\ UseIbr(config, last.role)

\* The frame as it looks once mask is composited onto it and the role's
\* brightness settings are applied.
Normalized(image, mask, camera_role) ==
    StabilizeBrightness(config, TRUE,
                        IF mask = None THEN image
                        ELSE [image EXCEPT !.px = MaskedAssign(image.px, mask, BACKGROUND_COLOR)],
                        camera_role)

\* C1: with segmentation_frame_skip = N (below 1 counted as 1), the service is
\* invoked exactly on calls 1, N+1, 2N+1, ... of the calls for IBR-enabled roles,
\* whether or not it then succeeds; on every other call it is not invoked, the
\* cached mask stays as it is and, when there is one, it is the mask composited.
C1_FrameSkipGate ==
    IbrCall =>
        LET N == IF config.segmentation_frame_skip < 1 THEN 1 ELSE config.segmentation_frame_skip
        IN /\ last.called <=> (\E k \in 0..ibr_calls : ibr_calls = k * N + 1)
           /\ ~last.called =>
                /\ last_mask = last.before.last_mask
                /\ last_mask # None =>
                     /\ last.applied = last_mask
                     /\ cv2_available => last.ret = Normalized(last.image, last_mask, last.role)

\* C1 witness: with N = 2 the third call is gated in again, after a skipped call
\* that reused the mask of the first.
C1_Witness ==
    /\ IbrCall /\ config.segmentation_frame_skip = 2 /\ ibr_calls = 3
    /\ last.called /\ last.before.last_mask # None

\* C2: when the gated segmentation raises, the call returns the input frame
\* unmasked and leaves the cached mask as it was; the skipped calls that follow
\* composite with the mask cached before the failure.
C2_FailureKeepsCache ==
    /\ (last.op # "none" /\ last.failed) =>
          /\ last.called
          /\ last.ret = last.image
          /\ last.applied = None
          /\ last_mask = last.before.last_mask
    /\ (IbrCall /\ ~last.called /\ failure.raised) =>
          /\ last_mask = failure.cache
          /\ failure.cache # None =>
               /\ last.applied = failure.cache
               /\ cv2_available => last.ret = Normalized(last.image, failure.cache, last.role)

\* C2 witness: a skipped call that composites the mask cached before the failed gated call.
C2_Witness ==
    /\ IbrCall /\ ~last.called /\ failure.raised
    /\ failure.cache # None /\ last.applied = failure.cache
    /\ last.ret # last.image

\* C3: the mask cache is keyed by camera role: a mask composited onto a frame
\* was computed from a frame of the same role, never from the other role's.
C3_MaskOfSameRole ==
    (last.op # "none" /\ last.applied # None) => last.applied_role = last.role

\* C7: every returned image has its role's brightness normalization applied,
\* composited or raw (IBR disabled, segmentation failure, skipped call without a
\* cached mask); stated for an installation with OpenCV, which CLAHE needs.
C7_AlwaysNormalized ==
    (last.op # "none" /\ cv2_available) =>
        last.ret = Normalized(last.image, last.applied, last.role)

NeutralView(camera_role) ==
    IF camera_role = TOP
    THEN /\ config.top_brightness = One /\ config.top_contrast = One /\ config.top_gamma = 1
         /\ ~config.top_brightness_stabilize
    ELSE /\ config.gripper_brightness = One /\ config.gripper_contrast = One
         /\ config.gripper_gamma = 1 /\ ~config.gripper_brightness_stabilize

IbrDisabled(camera_role) ==
    IF camera_role = TOP THEN ~config.top_use_ibr ELSE ~config.gripper_use_ibr

\* C8: with IBR disabled for the frame's role and brightness, contrast and gamma
\* 1.0 with CLAHE off, the call returns the input, does not invoke the service,
\* and leaves the frame counter and the cached mask unchanged.
C8_NeutralPassthrough ==
    (last.op # "none" /\ IbrDisabled(last.role) /\ NeutralView(last.role)) =>
        /\ last.ret = last.image
        /\ ~last.called
        /\ frame_count = last.before.frame_count
        /\ last_mask = last.before.last_mask

\* C8 witness: such a call made after earlier calls have advanced the counter and cached a mask.
C8_Witness ==
    /\ last.op # "none" /\ IbrDisabled(last.role) /\ NeutralView(last.role)
    /\ frame_count > 1 /\ last_mask # None /\ last.ret = last.image

\* C10: in every state and for every frame, role and outcome of the service,
\* process_with_mask returns the image process returns and changes the frame
\* counter, the cached mask and the failure counter as process does; its second
\* result is the mask composited, None exactly when none was (IBR disabled,
\* segmentation failed, or skipped call with no cached mask).
C10_WithMaskRefinesProcess ==
    \A image \in CameraFrames, camera_role \in CameraRole, seg \in SegOutcomes :
        LET p == ProcessOp(config, cv2_available, ProcState, image, camera_role, seg)
            q == ProcessWithMaskOp(config, cv2_available, ProcState, image, camera_role, seg)
            gated == (frame_count % Max(1, config.segmentation_frame_skip)) = 0
        IN /\ q.ret = p.ret
           /\ q.st = p.st
           /\ q.ret_mask = p.applied
           /\ q.ret_mask = None <=>
                \/ IbrDisabled(camera_role)
                \/ gated /\ seg.raises
                \/ ~gated /\ last_mask = None

\* C10 witness: process_with_mask on a skipped call returned the cached mask it composited.
C10_Witness ==
    /\ last.op = "process_with_mask" /\ ~last.called
    /\ last.ret_mask # None /\ last.ret_mask = last.before.last_mask

-----------------------------------------------------------------------------
(* Properties of YOLO26Service.segment, checked under SpecSvc *)

\* C4: the inference lock serializes model load and inference: no two threads
\* are inside the model's predict call at once.
C4_InferenceSerialized ==
    \A t1 \in Threads, t2 \in Threads :
        (spc[t1] = "in_predict" /\ spc[t2] = "in_predict") => t1 = t2

\* C5: under any interleaving of segment calls the model is loaded at most once,
\* by the first call that gets through, never before a call is made, and no call
\* reaches inference before the load has completed.
C5_LoadedOnce ==
    /\ loads <= 1
    /\ (model = "YOLO") <=> (loads = 1)
    /\ (\A t \in Threads : seg_calls[t] = 0) => loads = 0
    /\ \A t \in Threads : spc[t] \in {"unlock", "predict", "in_predict", "returned"} => loads = 1
    /\ predicts > 0 => loads = 1

\* C5 witness: every thread has made all its calls and got a mask, some of them
\* after waiting for the lock, and the model was loaded once.
C5_Witness ==
    /\ loads = 1 /\ predicts = NThreads * MaxSegCalls
    /\ \A t \in Threads : seg_calls[t] = MaxSegCalls /\ spc[t] = "returned"

-----------------------------------------------------------------------------
(* Properties of get_yolo26_service, checked under SpecSingleton *)

\* C6: under any interleaving of get_yolo26_service calls at most one
\* YOLO26Service is constructed and every call returns it, so all processors
\* built without a service of their own share that one.
C6_OneService ==
    /\ Len(services) <= 1
    /\ instance \in {0, 1} /\ instance = Len(services)
    /\ \A t \in Threads :
          (gpc[t] = "done" /\ ~garg[t].yolo_service) => (processors[t] = 1 /\ instance = 1)
    /\ \A t1 \in Threads, t2 \in Threads :
          (gpc[t1] = "done" /\ gpc[t2] = "done" /\ ~garg[t1].yolo_service /\ ~garg[t2].yolo_service)
              => processors[t1] = processors[t2]

\* C6 witness: every thread built a processor without passing a service, two of
\* them with different configurations, and all hold the one instance.
C6_Witness ==
    /\ \A t \in Threads : gpc[t] = "done" /\ ~garg[t].yolo_service /\ processors[t] = instance
    /\ \E t1 \in Threads, t2 \in Threads : garg[t1].vision_config # garg[t2].vision_config
    /\ Len(services) = 1

-----------------------------------------------------------------------------
(* Properties of background removal, checked under SpecMask *)

\* C9: for any frame and any mask of its height and width with values in
\* {0, 255}, remove_background and _apply_mask return an image of the same shape
\* whose pixels with mask 0 are the background colour and whose pixels with mask
\* 255 are the original pixels; the input image is not modified.
C9_BackgroundRemoval ==
    rb.fn # "none" =>
        /\ DOMAIN rb.out.px = DOMAIN rb.image.px
        /\ \A i \in DOMAIN rb.image.px :
              /\ DOMAIN rb.out.px[i] = DOMAIN rb.image.px[i]
              /\ rb.mask[i] = 0 => rb.out.px[i] = rb.background_color
              /\ rb.mask[i] = 255 => rb.out.px[i] = rb.image.px[i]
        /\ rb.image_after = rb.image

\* C9 witness: remove_background with a white background on a frame whose mask
\* has a background and a foreground pixel.
C9_Witness ==
    /\ rb.fn = "remove_background" /\ rb.background_color = <<255, 255, 255>>
    /\ \E i \in DOMAIN rb.mask, j \in DOMAIN rb.mask : rb.mask[i] = 0 /\ rb.mask[j] = 255
    /\ rb.out # rb.image

-----------------------------------------------------------------------------
(* Properties of the mask YOLO26Service.segment returns, checked under SpecSeg *)

NoDetections(results) == results.kind # "masks" \/ results.masks = <<>>

\* C11: for a frame of height H and width W, and whatever the model returned,
\* segment returns an H x W single-channel mask whose values are 0 or 255, and
\* the mask is all zero when there are no detections.
C11_MaskShapeAndValues ==
    sg.fn = "segment" =>
        /\ sg.mask.h = sg.h /\ sg.mask.w = sg.w
        /\ DOMAIN sg.mask.data = Cells(sg.h, sg.w)
        /\ \A c \in Cells(sg.h, sg.w) : sg.mask.data[c] \in {0, 255}
        /\ NoDetections(sg.results) => \A c \in Cells(sg.h, sg.w) : sg.mask.data[c] = 0

\* C11 witness: two instance masks, one of another resolution than the frame,
\* give a mask with an object pixel and a background pixel.
C11_Witness ==
    /\ sg.fn = "segment" /\ Len(sg.results.masks) = 2
    /\ \E i \in 1..2 : sg.results.masks[i].h # sg.h \/ sg.results.masks[i].w # sg.w
    /\ \E c \in Cells(sg.h, sg.w), d \in Cells(sg.h, sg.w) :
           sg.mask.data[c] = 255 /\ sg.mask.data[d] = 0

-----------------------------------------------------------------------------
(* Properties of the async mode of teleoperation, checked under SpecAsync *)

\* Observation n is nowhere between the loop and the loop's display: not in the
\* queue, not with the worker, not in the shared buffer.
Gone(n) ==
    /\ \A i \in DOMAIN queue : queue[i] # n
    /\ wpc \in {"process", "lock", "clear", "update", "unlock"} => wobs.obs # n
    /\ \A k \in DOMAIN shared : shared[k].id # n

\* C13: in async mode the loop's submission never blocks and never fails the
\* loop; the queue never holds more than one observation; an observation
\* submitted while the queue is full is dropped silently.
C13_SubmitNeverBlocks ==
    /\ Len(queue) <= 1
    /\ lpc = "put_nowait" => ENABLED LoopPutNowait
    /\ lpc \in {"lock", "read", "unlock", "act"} => Len(hist.put) = tick
    /\ \A n \in DOMAIN hist.put :
           /\ hist.put[n].queued = ~hist.put[n].full
           /\ hist.put[n].full => Gone(n)

\* C13 witness: the loop goes on with its tick after a submission that found the queue full.
C13_Witness ==
    /\ lpc = "act" /\ tick > 0 /\ Len(hist.put) = tick
    /\ hist.put[tick].full
    /\ Len(queue) = 1

\* C14: in async mode the observation the loop uses in a tick is its current
\* raw observation, when the worker has published nothing yet, or the complete
\* result of processing one observation submitted before, never a partly
\* written buffer or a mixture of two results; the lock of the shared buffer is
\* never held while the processor runs.
C14_ReadsWholeResult ==
    /\ used.tick > 0 =>
           \/ used.published = 0 /\ used.value = RawObs(used.tick)
           \/ \E m \in 1..used.tick : hist.put[m].queued /\ used.value = ProcessedObs(m)
    /\ wpc = "process" => shared_lock # "worker"
    /\ shared_lock = "worker" => wpc \in {"clear", "update", "unlock"}

\* C14 witness: the loop used the whole result of an earlier tick while the
\* worker holds the lock with the next result half written.
C14_Witness ==
    /\ used.tick > 1 /\ used.value = ProcessedObs(used.tick - 1)
    /\ shared_lock = "worker" /\ wpc = "update" /\ Cardinality(DOMAIN shared) = 1

-----------------------------------------------------------------------------
(* Properties of a teleoperation session, checked under SpecSess *)

-----------------------------------------------------------------------------
(* Load errors of YOLO26Service.segment, checked under SpecSvc *)

LoadErrors == {"FileNotFoundError", "ImportError"}

\* What one step of thread t may do to a call of segment that has to load the model.
LoadStep(t) ==
    \* segment raises only out of the load, and the load decides by the file and the library
    /\ (spc'[t] \in LoadErrors /\ spc[t] # spc'[t]) => spc[t] = "load"
    /\ (spc[t] = "load" /\ spc'[t] # "load") =>
           IF ~path_exists \/ ~ultralytics_available
           THEN /\ spc'[t] = (IF ~path_exists THEN "FileNotFoundError" ELSE "ImportError")
                /\ model' = "None" /\ loads' = loads /\ predicts' = predicts
                /\ infer_lock' = 0
           ELSE /\ spc'[t] = "unlock"
                /\ model' = "YOLO"
    \* with no model loaded every call goes to the load again
    /\ (spc[t] = "check" /\ spc'[t] # "check" /\ model = "None") => spc'[t] = "load"
    \* a call that has loaded the model goes on to predict and returns the mask
    /\ (spc[t] \in {"unlock", "predict", "in_predict"} /\ spc'[t] # spc[t]) =>
           spc'[t] \in {"predict", "in_predict", "returned"}

\* C16: when the model file is missing or the inference library cannot be
\* imported, segment raises FileNotFoundError or ImportError at first use
\* without running inference; the service stays unloaded, every later call
\* attempts the load again and raises again while the cause persists, and a
\* call made after the path has become valid loads the model and succeeds.
C16_LoadErrorsRetried ==
    /\ [](loads = 0 => model = "None" /\ predicts = 0)
    /\ [][\A t \in Threads : LoadStep(t)]_vars

\* C16 witness: one thread's second call raised FileNotFoundError like its
\* first, then the file appeared and another thread's call loaded the model
\* and returned a mask.
C16_Witness ==
    \E t \in Threads, u \in Threads :
        /\ t # u
        /\ spc[u] = "FileNotFoundError" /\ seg_calls[u] = 2
        /\ spc[t] = "returned" /\ loads = 1 /\ path_exists

-----------------------------------------------------------------------------
(* Properties of load_vision_config, checked under SpecCfg *)

LoadReturned == lv.fn = "load_vision_config"

NoPath == lv.config_path \in {NonePath, ""}

KnownSuffix == Suffix(lv.config_path) \in {".yaml", ".yml", ".json"}

\* The path is None or empty, names no file, or names a file that is
\* unreadable, undecodable, of an unknown extension, malformed or no mapping.
MissingOrInvalid ==
    \/ NoPath
    \/ ~lv.file.exists
    \/ lv.file.read # "text"
    \/ ~KnownSuffix
    \/ lv.file.parsed.kind # "dict"

\* C17: load_vision_config never raises, and returns the default VisionConfig
\* when the path is None or empty, does not exist, cannot be read, cannot be
\* decoded as text, holds malformed YAML or JSON, holds something that is no
\* mapping, or has an unknown extension.
C17_NeverRaises ==
    LoadReturned =>
        /\ lv.raised = "None"
        /\ MissingOrInvalid => lv.config = DefaultVisionConfig

\* C18: whenever load_vision_config substitutes the defaults because the path
\* is None, empty, missing or invalid, it logs a warning.
C18_DefaultsAreWarned ==
    (LoadReturned /\ lv.raised = "None" /\ MissingOrInvalid) => lv.warned

ReadableMapping ==
    /\ ~NoPath /\ lv.file.exists /\ lv.file.read = "text"
    /\ KnownSuffix /\ lv.file.parsed.kind = "dict"

FieldsFollowFile ==
    /\ lv.raised = "None"
    /\ \A f \in ValidKeys :
           lv.config[f] = IF f \in DOMAIN lv.file.parsed.data THEN lv.file.parsed.data[f]
                          ELSE DefaultVisionConfig[f]
    /\ DOMAIN lv.config = ValidKeys

\* C19 as written: for a readable YAML or JSON file that holds a mapping, every
\* recognized field in the file has the file's value, every other field its
\* default, and unknown fields have no effect.
C19_FileValuesTaken ==
    (LoadReturned /\ ReadableMapping) => FieldsFollowFile

\* C19 amended: the same for a JSON file, and for a YAML file when PyYAML can
\* be imported; without PyYAML a YAML file gives the defaults.
C19_FileValuesTakenWhenParsable ==
    (LoadReturned /\ ReadableMapping /\ (Suffix(lv.config_path) = ".json" \/ lv.yaml_available))
        => FieldsFollowFile

\* C19 witness: a YAML file with a recognized field set off its default, a
\* recognized field left out and an unknown field.
C19_Witness ==
    /\ LoadReturned /\ ReadableMapping /\ lv.yaml_available
    /\ Suffix(lv.config_path) = ".yml"
    /\ DOMAIN lv.file.parsed.data = {"gripper_use_ibr", "gripper_camera_key", "comment"}
    /\ lv.config.gripper_use_ibr = FALSE /\ lv.config.gripper_camera_key = "wrist"
    /\ lv.config.segmentation_frame_skip = 2

-----------------------------------------------------------------------------
(* Properties of get_camera_role and _apply_dual_camera_processor, checked under SpecDisp *)

IsImageFeature(k) == k \in DOMAIN disp.features /\ disp.features[k] = "tuple"

CalledFor(k) == \E i \in DOMAIN disp.calls : disp.calls[i].key = k

\* C20: get_camera_role gives GRIPPER to the configured gripper key, TOP to the
\* configured top key (the gripper key wins when both are equal) and None to
\* every other key; _apply_dual_camera_processor returns an observation with
\* the same keys in which a key without a role, or that is no image feature of
\* the robot, keeps its value and causes no call of the processor.
C20_RolesAndDispatch ==
    disp.fn = "_apply_dual_camera_processor" =>
        /\ \A k \in DispKeys :
               disp.role[k] = IF k = disp.keys.gripper_camera_key THEN GRIPPER
                              ELSE IF k = disp.keys.top_camera_key THEN TOP
                              ELSE NoRole
        /\ DOMAIN disp.out = DOMAIN disp.obs
        /\ \A k \in DOMAIN disp.obs :
               (k \notin {disp.keys.gripper_camera_key, disp.keys.top_camera_key} \/ ~IsImageFeature(k))
                   => disp.out[k] = disp.obs[k] /\ ~CalledFor(k)
        /\ \A i \in DOMAIN disp.calls :
               disp.calls[i].role = (IF disp.calls[i].key = disp.keys.gripper_camera_key
                                     THEN GRIPPER ELSE TOP)

\* C20 witness: both roles are configured on the key "top"; its frame is
\* processed once, as the gripper's, and the other keys are left alone.
C20_Witness ==
    /\ disp.fn = "_apply_dual_camera_processor"
    /\ disp.keys.gripper_camera_key = "top" /\ disp.keys.top_camera_key = "top"
    /\ \A k \in DispKeys : IsImageFeature(k)
    /\ Len(disp.calls) = 1 /\ disp.calls[1].key = "top" /\ disp.calls[1].role = GRIPPER
    /\ disp.out["top"] # disp.obs["top"]
    /\ disp.out["gripper"] = disp.obs["gripper"]

-----------------------------------------------------------------------------
(* Properties of the failure warnings, checked under SpecWarn *)

\* C21: failure warnings are rate-limited by consecutive failures: within a run
\* of consecutive failed gated calls a warning is logged on failures 1, 31, ...
\* of the run and on no other, and a successful segmentation ends the run, so
\* that the first failure of the next run is warned about again.
C21_WarningsPerRun ==
    (fw.fn \in {"process", "process_with_mask"} /\ fw.failed) =>
        (fw.warned <=> fw.run % FALLBACK_WARN_EVERY_N_FRAMES = 1)


WarnCallMade == fw.fn \in {"process", "process_with_mask"}

\* C22 as stated: the frame counter advances by one on every call of process or
\* process_with_mask, calls for a role whose IBR is disabled included.
C22_CounterAdvancesEveryCall ==
    WarnCallMade => fw.st.frame_count = fw.before.frame_count + 1

\* C22: the frame counter advances by one on every call of process or
\* process_with_mask for a role whose IBR is enabled, calls whose segmentation
\* fails included, and is left unchanged by a call for a role whose IBR is
\* disabled.
C22_CounterAdvancesOnIbrCalls ==
    WarnCallMade =>
        fw.st.frame_count = fw.before.frame_count +
                            (IF UseIbr(fw.config, fw.role) THEN 1 ELSE 0)

\* C22 witness: a call for the IBR role whose segmentation failed, made after
\* earlier calls, has advanced the counter.
C22_Witness ==
    /\ WarnCallMade /\ UseIbr(fw.config, fw.role) /\ fw.failed
    /\ fw.before.frame_count > 1
    /\ fw.st.frame_count = fw.before.frame_count + 1


\* C23: the service a call get_yolo26_service(cfg) returned is one constructed
\* with the cfg of that call, so it runs inference with that cfg's confidence,
\* IoU threshold and model path, also after an earlier call with another cfg.
C23_ServiceOfGivenConfig ==
    \A t \in Threads :
        (gpc[t] = "done" /\ ~garg[t].yolo_service) =>
            services[processors[t]].vision_config = garg[t].vision_config

-----------------------------------------------------------------------------
(* Properties of BrightnessReducePreprocessor, checked under SpecBright *)

\* C24: process applies gamma correction to a frame only when that frame's mean
\* luminance exceeds the luminance threshold: a frame at or below the threshold
\* is never darkened, whatever frames preceded it.
C24_GammaOnlyAboveThreshold ==
    (bp.fn = "process" /\ bp.out.gamma # None) =>
        bp.image.mean_luminance * bp.self.luminance_threshold[2]
            > bp.self.luminance_threshold[1]


\* The smoothed gamma lies between 1.0 and the configured gamma, is 1.0 after
\* reset, and is 1.0 while no frame has exceeded the threshold since
\* construction or the last reset.
EmaInRange ==
    bp.fn # "none" =>
        /\ RLe(One, bp.self.ema) /\ RLe(bp.self.ema, bp.self.gamma)
        /\ bp.fn = "reset" => bp.self.ema = One
        /\ ~bp.bright => bp.self.ema = One

\* The value the smoothing formula gives for the last call of process.
EmaOfLastCall ==
    LET alpha == bp.self.gamma_ema_alpha
        target == IF bp.image.mean_luminance * bp.self.luminance_threshold[2]
                        > bp.self.luminance_threshold[1]
                  THEN bp.self.gamma ELSE One
    IN Rat(alpha[1] * bp.prev[1] * target[2] + (alpha[2] - alpha[1]) * target[1] * bp.prev[2],
           alpha[2] * bp.prev[2] * target[2])

\* C29 as stated: 1.0 <= gamma_ema <= configured gamma after any sequence of
\* process and reset calls, every call of process sets gamma_ema to
\* alpha * previous + (1 - alpha) * target, reset restores 1.0, and gamma_ema is
\* 1.0 while no frame has exceeded the threshold.
C29_EmaOnEveryCall ==
    /\ EmaInRange
    /\ bp.fn = "process" => bp.self.ema = EmaOfLastCall

\* C29: 1.0 <= gamma_ema <= configured gamma after any sequence of process and
\* reset calls; a call of process on an (H, W, 3) frame with cv2 importable sets
\* gamma_ema to alpha * previous + (1 - alpha) * target, with target 1.0 at or
\* below the threshold and the configured gamma above it, and any other call of
\* process leaves gamma_ema as it was; reset restores 1.0; gamma_ema is 1.0
\* while no frame has exceeded the threshold.
C29_EmaOnRgbCalls ==
    /\ EmaInRange
    /\ bp.fn = "process" =>
          bp.self.ema = IF bp.cv2 /\ bp.image.rgb THEN EmaOfLastCall ELSE bp.prev

\* C29 witness: a second bright frame has moved gamma_ema from a value above
\* 1.0 to a larger one below the configured gamma.
C29_Witness ==
    /\ bp.fn = "process" /\ bp.cv2 /\ bp.image.rgb /\ bp.image.mean_luminance = 200
    /\ ~RLe(bp.prev, One) /\ ~RLe(bp.self.ema, bp.prev) /\ ~RLe(bp.self.gamma, bp.self.ema)
    /\ bp.self.ema = EmaOfLastCall

-----------------------------------------------------------------------------
(* Properties of the mask objects of process_with_mask, checked under SpecAlias *)

\* C25: the mask process_with_mask returns is never the array object the
\* processor keeps as its cached mask, on gated and on skipped calls alike, so
\* whatever the caller writes into it the cached mask still has the contents
\* the service delivered.
C25_ReturnedMaskNotCache ==
    /\ (al.fn = "process_with_mask" /\ al.ret_mask # 0) => al.ret_mask # al.self.last_mask
    /\ (al.fn # "none" /\ al.self.last_mask # 0) => al.heap[al.self.last_mask] = al.delivered

-----------------------------------------------------------------------------
(* Properties of the teleoperation session's threads *)

\* C26: once the teleoperation loop has ended (duration reached, interrupt or
\* error) the worker eventually receives the shutdown sentinel and terminates,
\* also when the queue is full or the worker is processing at that moment.
C26_WorkerTerminates == (lpc = "finally") ~> (wpc = "done")

\* C27: process is never executed by two threads at once: in async mode the
\* control loop never calls _apply_dual_camera_processor, in synchronous mode
\* no worker runs, so the loop and the worker are never both inside the call.
C27_OneCallerOfProcess ==
    /\ ~(lpc = "apply" /\ wpc = "process")
    /\ ibr_async => lpc # "apply"
    /\ ~ibr_async => wpc = "off"

\* C27 witness: in async mode the worker is inside the call while the control
\* loop, at a later tick, is about to submit the next observation.
C27_Witness ==
    ibr_async /\ wpc = "process" /\ lpc = "put_nowait" /\ tick > wobs.obs


\* C28: the first call for an IBR role is gated in and a cached mask is never
\* cleared; so a skipped call finds no cached mask only if no segmentation has
\* succeeded since construction and a gated call has failed before it, and
\* once a segmentation has succeeded every skipped call composites a mask.
C28_NoCacheOnlyAfterFailure ==
    (WarnCallMade /\ UseIbr(fw.config, fw.role)) =>
        /\ fw.first => fw.called
        /\ fw.before.last_mask # None => fw.st.last_mask # None
        /\ (~fw.called /\ fw.applied = None) =>
              (~fw.succeeded /\ fw.before.fallback_warn_count >= 1)
        /\ (~fw.called /\ fw.succeeded) => fw.applied = fw.st.last_mask /\ fw.applied # None

\* C28 witness: a skipped call passes the frame through raw because the gated
\* call before it failed and nothing has been cached yet.
C28_Witness ==
    /\ WarnCallMade /\ UseIbr(fw.config, fw.role)
    /\ ~fw.called /\ fw.applied = None /\ ~fw.succeeded
    /\ fw.before.fallback_warn_count = 1 /\ fw.st.frame_count = 2

-----------------------------------------------------------------------------
(* Properties of YOLOIBRObservationProcessorStep, checked under SpecStep *)

\* Call number c of a key is a scheduled one: c is 1, N+1, 2N+1, ...
Scheduled(c) == (c - 1) % Max(ys.self.every_n_frames, 1) = 0

\* C30: with every_n_frames = N segmentation is scheduled per image key: the
\* model runs on the key's calls 1, N+1, 2N+1, ...; any other call reuses the
\* key's own cached mask without running the model, or runs the model when the
\* key has no cache entry; each key's counter stays in 0 .. max(N, 1) - 1.
C30_PerKeySchedule ==
    ys.fn = "observation" =>
        /\ \A k \in DOMAIN ys.count : ys.count[k] \in 0..(Max(ys.self.every_n_frames, 1) - 1)
        /\ \A k \in DOMAIN ys.done :
              LET d == ys.done[k]
              IN /\ k \in StepImageKeys /\ d.call = ys.hist[k]
                 /\ Scheduled(d.call) => d.ran
                 /\ (~Scheduled(d.call) /\ d.cached) =>
                       (~d.ran /\ d.mask # None /\ d.mask[1] = k /\ d.mask[2] < d.call)
                 /\ (~Scheduled(d.call) /\ ~d.cached) => d.ran

\* C30 witness: with N = 2, in one observation the gripper key is at its second
\* call and reuses its mask while the top key is at its first call and runs the
\* model; and the scheduled third call of gripper is yet to come.
C30_Witness ==
    /\ ys.fn = "observation" /\ ys.self.every_n_frames = 2
    /\ DOMAIN ys.done = {"gripper", "top"}
    /\ ys.done["gripper"].call = 2 /\ ~ys.done["gripper"].ran
    /\ ys.done["gripper"].mask = <<"gripper", 1>>
    /\ ys.done["top"].call = 1 /\ ys.done["top"].ran
    /\ ys.count["gripper"] = 0 /\ ys.count["top"] = 1

====
